---- MODULE Spec2Model ----
(***************************************************************************)
(* Model of the staged ingestion pipeline and of the grounded story        *)
(* pipeline of the backend (app/jobs/ingest_snapshot.py,                   *)
(* app/jobs/generate_story.py, app/services/agents/story_agent.py).        *)
(*                                                                         *)
(* Conventions.  JSON values that the language model returns are untyped;  *)
(* they are modelled as records that carry their Python type:              *)
(*   an id entry       [isStr, v]        v = k stands for the string id k  *)
(*   an evidence_ids   [isList, entries]                                   *)
(*   a date value      [form, a, b, c, ws]   (see _normalize_date)         *)
(*   a timeline/claim  [isDict, description, evidence_ids, date, invalid]  *)
(* Evidence ids are natural numbers; 0 stands for the empty / missing id.  *)
(***************************************************************************)
EXTENDS Integers, Sequences, FiniteSets, TLC

VARIABLES
    \* ---- database rows of one snapshot (app/db/models.py) ----
    snapshot,         \* the Snapshot row
    evidence,         \* source ids of the stored EvidenceItem rows
    entities,         \* the Entity rows
    entity_evidence,  \* the EntityEvidence rows, <<entity id, evidence id>>
    artifacts,        \* the Artifact rows, a function key -> data
    \* ---- queue backend and ingestion jobs ----
    redis,            \* ids of the ingestion jobs whose key the backend holds
    job,              \* one record per run_ingestion execution
    statusReq,        \* a snapshot_status request between its read and write
    story_queue,      \* entity ids of the preload story jobs submitted
    \* ---- story jobs ----
    sJob,             \* one record per run_story_generation execution
    story_verification_enabled,   \* the setting of that name
    \* ---- a session that calls store_artifact in a row ----
    sCalls,           \* the calls made: key, data and the data returned
    \* ---- Story Writer call (story_agent.generate_story) ----
    wPc,          \* "call" before the call, "returned" after it
    wEvidence,    \* evidence_list argument of the call
    wData,        \* what call_llm_json produced for the call
    wStory,       \* the StoryContent returned
    \* ---- a batched summary call (thread_agent, meeting_agent) ----
    bPc,          \* "call" before the call, "threads" / "meetings" after it
    bInputs,      \* the threads or events passed
    bData,        \* what call_llm_json produced for the batched call
    bOut,         \* the list of summaries returned
    \* ---- the mailbox and the calendar of the subject ----
    source,       \* the messages and events that the two APIs hold, by id
    \* ---- the entity extraction of one snapshot ----
    xPc,          \* "evidence", then "persons", then "orgs"
    \* ---- the evidence selection of generate_entity_story ----
    cPc,          \* "gathered" before the selection, "selected" after it
    combined,     \* the list of that name: the candidates, then sorted
    selected      \* the list of that name, from which evidence_list is built

dbVars == <<snapshot, evidence, entities, entity_evidence, artifacts>>

jobVars == <<redis, job, statusReq, story_queue>>

storyVars == <<sJob, story_verification_enabled>>

storeVars == <<sCalls>>

writerVars == <<wPc, wEvidence, wData, wStory>>

batchVars == <<bPc, bInputs, bData, bOut>>

extractVars == <<xPc>>

selectVars == <<cPc, combined, selected>>

apiVars == <<source>>

vars ==
    <<dbVars, jobVars, storyVars, storeVars, writerVars, batchVars, extractVars, selectVars, apiVars>>

\* what the steps of an ingestion job, of a story job and of the Story
\* Writer call leave alone
restOfIngestion == <<storyVars, storeVars, writerVars, batchVars, extractVars, selectVars, apiVars>>

restOfStory == <<storeVars, writerVars, batchVars, extractVars, selectVars, apiVars>>

restOfWriter ==
    <<dbVars, jobVars, storyVars, storeVars, batchVars, extractVars, selectVars, apiVars>>

restOfBatch ==
    <<dbVars, jobVars, storyVars, storeVars, writerVars, extractVars, selectVars, apiVars>>

restOfExtraction ==
    <<jobVars, storyVars, storeVars, writerVars, batchVars, selectVars, apiVars>>

restOfSelection ==
    <<dbVars, jobVars, storyVars, storeVars, writerVars, batchVars, extractVars, apiVars>>

(***************************************************************************)
(* Program constants and bounds                                            *)
(***************************************************************************)
MAX_EVIDENCE_IDS_PER_STORY == 120

MaxTimeline == 2       \* timeline entries in one model output
MaxClaims == 1         \* claims in one model output
EvidenceCount == 61    \* size of the large evidence list

(***************************************************************************)
(* Small helpers                                                           *)
(***************************************************************************)
Max(S) == CHOOSE x \in S : \A y \in S : y <= x

Range(s) == {s[i] : i \in 1..Len(s)}

Prefix(s, n) == [i \in 1..(IF n < Len(s) THEN n ELSE Len(s)) |-> s[i]]

RECURSIVE SumLens(_)
SumLens(lists) ==
    IF lists = <<>> THEN 0 ELSE Len(Head(lists)) + SumLens(Tail(lists))

(***************************************************************************)
(* The mailbox and the calendar of the user.  An address is                *)
(* [local, domain, caps]: caps says that it is written with capitals;      *)
(* the empty address "" is Email("", "").  Names, subjects and previews    *)
(* are payload that no step branches on and are left out.                  *)
(***************************************************************************)
MaxJobs == 2          \* run_ingestion executions for the snapshot

Null == "null"        \* a NULL column, a Python None

Email(local, domain) == [local |-> local, domain |-> domain, caps |-> FALSE]

NoEmail == Email("", "")

lower(email) == [email EXCEPT !.caps = FALSE]

user_email == Email("me", "corp.com")

\* a Gmail message as store_gmail_evidence stores it: the From address,
\* then the To and the Cc addresses
Message(day, participants, has_list_id) ==
    [source_type |-> "gmail_message", day |-> day,
     duration_minutes |-> 0,
     has_list_unsubscribe |-> FALSE, has_list_id |-> has_list_id,
     recipient_count |-> Len(participants) - 1,
     participants |-> participants]

\* a calendar event as store_calendar_evidence stores it: the organizer,
\* then the attendees that are not resources
Event(day, duration_minutes, participants) ==
    [source_type |-> "calendar_event", day |-> day,
     duration_minutes |-> duration_minutes,
     has_list_unsubscribe |-> FALSE, has_list_id |-> FALSE,
     recipient_count |-> 0,
     participants |-> participants]

\* rows of the mailbox and of the calendar, by source id.  m1 and e1 are
\* the rows of the snapshot that the ingestion fetches.  m2..m6 are five
\* messages of one sender on one day, e2 is an event whose organizer the
\* Calendar API also lists among its attendees, l1 is a mailing-list
\* message and n1 a message of an automated sender to two people.
SourceRows ==
    [m1 |-> Message(1, <<Email("a", "x.com"), user_email>>, FALSE),
     e1 |-> Event(2, 30, <<Email("a", "x.com"), user_email>>),
     m2 |-> Message(1, <<Email("b", "y.com"), user_email>>, FALSE),
     m3 |-> Message(1, <<Email("b", "y.com"), user_email>>, FALSE),
     m4 |-> Message(1, <<Email("b", "y.com"), user_email>>, FALSE),
     m5 |-> Message(1, <<Email("b", "y.com"), user_email>>, FALSE),
     m6 |-> Message(1, <<Email("b", "y.com"), user_email>>, FALSE),
     e2 |-> Event(3, 45, <<Email("c", "z.com"), Email("c", "z.com"), user_email>>),
     l1 |-> Message(4, <<Email("a", "x.com"), user_email>>, TRUE),
     n1 |-> Message(3, <<Email("noreply", "x.com"), user_email, Email("a", "x.com")>>,
                    FALSE)]

\* the rows inside the window of the snapshot that is ingested
Window == {"m1", "e1"}

Inbox == {id \in Window : source[id].source_type = "gmail_message"}

Calendar == {id \in Window : source[id].source_type = "calendar_event"}

\* the is_bulk column of a stored row
is_bulk(row) ==
    /\ row.source_type = "gmail_message"
    /\ (row.has_list_unsubscribe \/ row.has_list_id \/ row.recipient_count > 10)

\* local parts that AUTOMATED_SENDER_REGEX matches
AutomatedLocalParts == {"noreply", "no-reply", "notifications", "mailer-daemon"}

is_automated_sender(email) ==
    email # NoEmail /\ email.local \in AutomatedLocalParts

\* the is_automated_sender column of a stored row: GmailMessage takes it
\* from the From address, and a calendar row has the default of the column
RowIsAutomated(row) ==
    /\ row.source_type = "gmail_message"
    /\ is_automated_sender(row.participants[1])

\* some of the consumer mail domains of the list
_PERSONAL_EMAIL_DOMAINS == {"gmail.com", "yahoo.com", "outlook.com", "icloud.com"}

\* domains that end with ".gserviceaccount.com"
ServiceAccountDomains == {"proj.iam.gserviceaccount.com"}

_should_skip_org_domain(domain, user_domain) ==
    \/ domain = ""
    \/ domain = user_domain
    \/ domain \in _PERSONAL_EMAIL_DOMAINS
    \/ domain \in ServiceAccountDomains

(***************************************************************************)
(* Entity extraction                                                       *)
(***************************************************************************)
RECURSIVE SetToSeq(_)
\* the elements of a set in some fixed order (the order of a dict, of a query)
SetToSeq(S) ==
    IF S = {} THEN <<>>
    ELSE LET x == CHOOSE y \in S : TRUE IN <<x>> \o SetToSeq(S \ {x})

\* sorted(items, key, reverse=True): descending, stable
SortedDesc(items, key(_)) ==
    LET rank(i) == Cardinality({j \in 1..Len(items) :
                       \/ key(items[j]) > key(items[i])
                       \/ key(items[j]) = key(items[i]) /\ j < i}) + 1
    IN [r \in 1..Len(items) |-> items[CHOOSE i \in 1..Len(items) : rank(i) = r]]

RECURSIVE SumMinutes(_)
\* sum of duration_minutes over a set of <<evidence id, ...>> tuples
SumMinutes(S) ==
    IF S = {} THEN 0
    ELSE LET x == CHOOSE y \in S : TRUE
         IN source[x[1]].duration_minutes + SumMinutes(S \ {x})

\* the rows that the extraction queries select: is_bulk == False
NonBulk(ev) == {e \in ev : ~is_bulk(source[e])}

\* a participant that extraction does not skip
Counted(email) ==
    /\ email # NoEmail
    /\ email # lower(user_email)
    /\ ~is_automated_sender(email)

\* the participant entries <<evidence id, position>> that carry the address
Occurrences(ev, email) ==
    UNION {{<<e, i>> : i \in {k \in DOMAIN source[e].participants :
                                lower(source[e].participants[k]) = email}} :
           e \in NonBulk(ev)}

PersonEmails(ev) ==
    {m \in UNION {{lower(source[e].participants[k]) :
                     k \in DOMAIN source[e].participants} : e \in NonBulk(ev)} :
        Counted(m)}

\* entity_stats[email] after the loop over the evidence rows
person_stats(ev, email) ==
    LET occ == Occurrences(ev, email)
        mails == {o \in occ : source[o[1]].source_type = "gmail_message"}
        meets == {o \in occ : source[o[1]].source_type = "calendar_event"}
    IN [email |-> email,
        domain |-> email.domain,
        interaction_dates |-> {source[o[1]].day : o \in occ},
        evidence_ids |-> {o[1] : o \in occ},
        contact_emails |-> {email},
        email_count |-> Cardinality(mails),
        meeting_count |-> Cardinality(meets),
        total_meeting_minutes |-> SumMinutes(meets)]

IsEligible(stats) ==
    \/ Cardinality(stats.interaction_dates) >= 2
    \/ stats.meeting_count >= 2
    \/ stats.email_count >= 5

\* a score whose weights of meetings and of messages are exchanged
PersonScore_WeightsExchanged(stats) ==
    stats.total_meeting_minutes * 2 + stats.meeting_count * 5
        + stats.email_count * 30 + Cardinality(stats.interaction_dates) * 10

PersonScore(stats) ==
    stats.total_meeting_minutes * 2 + stats.meeting_count * 30
        + stats.email_count * 5 + Cardinality(stats.interaction_dates) * 10

OrgScore(stats) == PersonScore(stats) + Cardinality(stats.contact_emails) * 25

EntityScore(entity) == entity.score

\* the Entity row built from the statistics; ids are fresh
EntityRow(id, kind, stats, score) ==
    [id |-> id, kind |-> kind,
     primary_email |-> IF kind = "person" THEN stats.email ELSE NoEmail,
     domain |-> stats.domain,
     score |-> score,
     interaction_days |-> Cardinality(stats.interaction_dates),
     meeting_count |-> stats.meeting_count,
     email_count |-> stats.email_count,
     total_meeting_minutes |-> stats.total_meeting_minutes]

LinksOf(created, stats) ==
    UNION {{<<created[k].id, e>> : e \in stats[k].evidence_ids} : k \in DOMAIN created}

\* extract_entities: the rows after its commit and the list it returns
extract_entities(ev, ents, links) ==
    LET eligible == SetToSeq({s \in {person_stats(ev, m) : m \in PersonEmails(ev)} :
                                 IsEligible(s)})
        created == [k \in 1..Len(eligible) |->
                       EntityRow(Cardinality(ents) + k, "person", eligible[k],
                                 PersonScore(eligible[k]))]
    IN [entities |-> ents \cup {created[k] : k \in DOMAIN created},
        entity_evidence |-> links \cup LinksOf(created, eligible),
        returned |-> SortedDesc(created, EntityScore)]

OrgDomains(ev) ==
    {m.domain : m \in {p \in PersonEmails(ev) :
                          ~_should_skip_org_domain(p.domain, lower(user_email).domain)}}

\* org_stats[domain] after the loop: one count per evidence row
org_stats(ev, domain) ==
    LET occ == UNION {Occurrences(ev, m) : m \in {p \in PersonEmails(ev) : p.domain = domain}}
        items == {<<e>> : e \in {o[1] : o \in occ}}
        mails == {x \in items : source[x[1]].source_type = "gmail_message"}
        meets == {x \in items : source[x[1]].source_type = "calendar_event"}
    IN [email |-> NoEmail,
        domain |-> domain,
        interaction_dates |-> {source[x[1]].day : x \in items},
        evidence_ids |-> {x[1] : x \in items},
        contact_emails |-> {p \in PersonEmails(ev) : p.domain = domain},
        email_count |-> Cardinality(mails),
        meeting_count |-> Cardinality(meets),
        total_meeting_minutes |-> SumMinutes(meets)]

OrgLimit == 5          \* limit of extract_top_organizations

TopCount == 5          \* entities[:5]

\* extract_top_organizations: existing organizations are returned as they are
extract_top_organizations(ev, ents, links, limit) ==
    LET existing == Prefix(SortedDesc(SetToSeq({x \in ents : x.kind = "org"}),
                                      EntityScore), limit)
        eligible == SetToSeq({s \in {org_stats(ev, d) : d \in OrgDomains(ev)} :
                                 IsEligible(s)})
        top_orgs == Prefix(SortedDesc(eligible, OrgScore), limit)
        created == [k \in 1..Len(top_orgs) |->
                       EntityRow(Cardinality(ents) + k, "org", top_orgs[k],
                                 OrgScore(top_orgs[k]))]
    IN IF Len(existing) > 0
       THEN [entities |-> ents, entity_evidence |-> links,
             returned |-> [k \in 1..Len(existing) |->
                              [entity |-> existing[k], contact_count |-> 0]]]
       ELSE [entities |-> ents \cup {created[k] : k \in DOMAIN created},
             entity_evidence |-> links \cup LinksOf(created, top_orgs),
             returned |-> [k \in 1..Len(top_orgs) |->
                              [entity |-> created[k],
                               contact_count |->
                                   Cardinality(top_orgs[k].contact_emails)]]]

\* compute_wrapped_metrics: the counts the other fields derive from
compute_wrapped_metrics(ev) ==
    LET events == {<<e>> : e \in ev \cap Calendar}
    IN [total_meetings |-> Cardinality(events),
        total_meeting_minutes |-> SumMinutes(events),
        total_emails |-> Cardinality(ev \cap Inbox)]

(***************************************************************************)
(* The Snapshot row and the session of a job.  The sessions are made with  *)
(* expire_on_commit=False: a job keeps the Snapshot object it loaded, and  *)
(* a commit sends an UPDATE of the columns whose value differs from the    *)
(* one the session holds.  A rollback expires the object, so that the      *)
(* next select reads the row again.                                        *)
(***************************************************************************)
NoCounts == [k \in {} |-> 0]

\* the row that google_callback inserts (auth.py); the tokens and the
\* timestamps are kept as "is not null"
NewSnapshot ==
    [status |-> "queued", stage |-> Null, failure_reason |-> Null,
     access_token_encrypted |-> TRUE, refresh_token_encrypted |-> TRUE,
     token_expiry |-> TRUE, ingest_job_id |-> 0,
     progress_counts |-> [preflight_passed |-> 1],
     completed_at |-> FALSE, expires_at |-> FALSE]

\* session.commit(): the UPDATE of the changed columns
Commit(row, orm, new) ==
    [k \in DOMAIN row |-> IF new[k] # orm[k] THEN new[k] ELSE row[k]]

\* update_snapshot_status: the row and the session's object after the commit
update_snapshot_status(row, orm, status, stage, progress_counts, failure_reason) ==
    LET s1 == IF status # Null THEN [orm EXCEPT !.status = status] ELSE orm
        s2 == IF stage # Null THEN [s1 EXCEPT !.stage = stage] ELSE s1
        s3 == IF DOMAIN progress_counts # {}
              THEN [s2 EXCEPT !.progress_counts = progress_counts @@ s2.progress_counts]
              ELSE s2
        s4 == IF failure_reason \notin {Null, ""}
              THEN [s3 EXCEPT !.failure_reason = failure_reason] ELSE s3
    IN [row |-> Commit(row, orm, s4), orm |-> s4]

SetStage(row, orm, stage) ==
    update_snapshot_status(row, orm, Null, stage, NoCounts, Null)

SetProgress(row, orm, progress_counts) ==
    update_snapshot_status(row, orm, Null, Null, progress_counts, Null)

(***************************************************************************)
(* Jobs                                                                    *)
(***************************************************************************)
Jobs == 1..MaxJobs

\* str(e) of the exceptions that a stage raises
StrOf ==
    [TimeoutError |-> "",
     HttpError |-> "HttpError 503",
     IntegrityError |-> "IntegrityError duplicate key",
     TypeError |-> "sequence item 0: expected str instance"]

ArtifactKey(type, key) == <<type, key, 0>>

NoArtifact == [key |-> ArtifactKey("none", "none"), data |-> 0, next |-> "none"]

NoResult == [status |-> Null, error |-> Null]

\* a job that has not been submitted; its fields are the locals of
\* run_ingestion: orm is the Snapshot object of its session
NoJob ==
    [pc |-> "absent", orm |-> NewSnapshot, access_token |-> FALSE,
     rerun |-> FALSE, message_list |-> {}, pending |-> NoArtifact,
     entities |-> <<>>, top_orgs |-> <<>>, exception |-> Null,
     result |-> NoResult]

\* the positions at which a job is inside the try block of run_ingestion
StagePcs ==
    {"init", "gmail_list", "gmail_fetch", "calendar_fetch", "wrapped_compute",
     "store_commit", "entities_compute", "graph", "orgs_compute", "finalize"}

\* the stages that call the Gmail or Calendar API
ApiPcs == {"gmail_list", "gmail_fetch", "calendar_fetch"}

Returned(j, status, error) ==
    [NoJob EXCEPT !.pc = "returned", !.rerun = job[j].rerun,
                  !.result = [status |-> status, error |-> error]]

(***************************************************************************)
(* run_ingestion, one action per stage.  An action ends where the next     *)
(* statement can raise or where another job can act in between.            *)
(***************************************************************************)
\* "except Exception as e": rollback, the status failed with str(e), and
\* the result; row is the Snapshot row when the statement raised
HandleException(j, row, exc) ==
    LET error == StrOf[exc]
        u == update_snapshot_status(row, row, "failed", Null, NoCounts, error)
    IN /\ snapshot' = u.row
       /\ job' = [job EXCEPT ![j] = [Returned(j, "failed", error)
                                        EXCEPT !.exception = exc]]

\* a worker takes the job: the snapshot is selected, the token decrypted
LoadSnapshot(j) ==
    /\ job[j].pc = "enqueued"
    /\ job' = [job EXCEPT ![j].pc = "init",
                          ![j].orm = snapshot,
                          ![j].access_token = snapshot.access_token_encrypted,
                          ![j].rerun = \E k \in Jobs : job[k].pc = "dead"]
    /\ UNCHANGED <<dbVars, redis, statusReq, story_queue, restOfIngestion>>

\* "if not access_token" and stage init
StageInit(j) ==
    /\ job[j].pc = "init"
    /\ IF ~job[j].access_token
       THEN LET u == update_snapshot_status(snapshot, job[j].orm, "failed", Null,
                                            NoCounts, "No access token available")
            IN /\ snapshot' = u.row
               /\ job' = [job EXCEPT ![j] = Returned(j, "failed", "No access token")]
       ELSE LET u == update_snapshot_status(snapshot, job[j].orm, "running", "init",
                                            NoCounts, Null)
            IN /\ snapshot' = u.row
               /\ job' = [job EXCEPT ![j].pc = "gmail_list", ![j].orm = u.orm]
    /\ UNCHANGED <<evidence, entities, entity_evidence, artifacts,
                   redis, statusReq, story_queue,
                   restOfIngestion>>

\* stage gmail_list: the listing answers with some of the messages
StageGmailList(j) ==
    /\ job[j].pc = "gmail_list"
    /\ \E message_list \in SUBSET Inbox :
          LET u1 == SetStage(snapshot, job[j].orm, "gmail_list")
              u2 == SetProgress(u1.row, u1.orm,
                        [messages_estimated |-> Cardinality(message_list),
                         messages_listed |-> Cardinality(message_list)])
          IN /\ snapshot' = u2.row
             /\ job' = [job EXCEPT ![j].pc = "gmail_fetch", ![j].orm = u2.orm,
                                   ![j].message_list = message_list]
    /\ UNCHANGED <<evidence, entities, entity_evidence, artifacts,
                   redis, statusReq, story_queue,
                   restOfIngestion>>

\* store_gmail_evidence / store_calendar_evidence: a plain INSERT, which
\* the unique constraint uq_evidence_source rejects as a whole
StoreEvidence(j, stage, ids, counts, next) ==
    LET u1 == SetStage(snapshot, job[j].orm, stage)
        u2 == SetProgress(u1.row, u1.orm, counts)
    IN IF ids \cap evidence # {}
       THEN /\ HandleException(j, u1.row, "IntegrityError")
            /\ UNCHANGED evidence
       ELSE /\ snapshot' = u2.row
            /\ evidence' = evidence \cup ids
            /\ job' = [job EXCEPT ![j].pc = next, ![j].orm = u2.orm]

\* stage gmail_fetch: messages whose fetch fails are left out
StageGmailFetch(j) ==
    /\ job[j].pc = "gmail_fetch"
    /\ \E messages \in SUBSET job[j].message_list :
          StoreEvidence(j, "gmail_fetch", messages,
                        [messages_fetched |-> Cardinality(messages),
                         messages_stored |-> Cardinality(messages)],
                        "calendar_fetch")
    /\ UNCHANGED <<entities, entity_evidence, artifacts,
                   redis, statusReq, story_queue,
                   restOfIngestion>>

\* stage calendar_fetch
StageCalendarFetch(j) ==
    /\ job[j].pc = "calendar_fetch"
    /\ \E events \in SUBSET Calendar :
          StoreEvidence(j, "calendar_fetch", events,
                        [events_fetched |-> Cardinality(events),
                         events_stored |-> Cardinality(events)],
                        "wrapped_compute")
    /\ UNCHANGED <<entities, entity_evidence, artifacts,
                   redis, statusReq, story_queue,
                   restOfIngestion>>

\* store_artifact up to its commit: the select for an existing row
StoreArtifactSelect(j, orm, key, data, next, entity_list, org_list) ==
    job' = [job EXCEPT ![j].orm = orm,
                       ![j].entities = entity_list,
                       ![j].top_orgs = org_list,
                       ![j].pc = IF key \in DOMAIN artifacts THEN next
                                 ELSE "store_commit",
                       ![j].pending = IF key \in DOMAIN artifacts THEN NoArtifact
                                      ELSE [key |-> key, data |-> data, next |-> next]]

\* store_artifact, the commit of the new row: uq_artifact_key rejects a
\* second row of the key, and store_artifact raises again what commit raised
StoreArtifactCommit(j) ==
    /\ job[j].pc = "store_commit"
    /\ IF job[j].pending.key \in DOMAIN artifacts
       THEN /\ HandleException(j, snapshot, "IntegrityError")
            /\ UNCHANGED artifacts
       ELSE /\ artifacts' = (job[j].pending.key :> job[j].pending.data) @@ artifacts
            /\ job' = [job EXCEPT ![j].pc = job[j].pending.next,
                                  ![j].pending = NoArtifact]
            /\ UNCHANGED snapshot
    /\ UNCHANGED <<evidence, entities, entity_evidence,
                   redis, statusReq, story_queue,
                   restOfIngestion>>

\* stage wrapped_compute
StageWrappedCompute(j) ==
    /\ job[j].pc = "wrapped_compute"
    /\ LET u == SetStage(snapshot, job[j].orm, "wrapped_compute")
       IN /\ snapshot' = u.row
          /\ StoreArtifactSelect(j, u.orm, ArtifactKey("wrapped_cards", "wrapped"),
                                 compute_wrapped_metrics(evidence),
                                 "entities_compute", <<>>, <<>>)
    /\ UNCHANGED <<evidence, entities, entity_evidence, artifacts,
                   redis, statusReq, story_queue,
                   restOfIngestion>>

\* stage entities_compute: extract_entities, then the top5 artifact
StageEntitiesCompute(j) ==
    /\ job[j].pc = "entities_compute"
    /\ LET u == SetStage(snapshot, job[j].orm, "entities_compute")
           x == extract_entities(evidence, entities, entity_evidence)
           top_5 == Prefix(x.returned, TopCount)
       IN /\ snapshot' = u.row
          /\ entities' = x.entities
          /\ entity_evidence' = x.entity_evidence
          /\ StoreArtifactSelect(j, u.orm, ArtifactKey("top_entities", "top5"),
                                 [entities |-> top_5], "graph", x.returned, <<>>)
    /\ UNCHANGED <<evidence, artifacts, redis, statusReq, story_queue, restOfIngestion>>

\* the graph artifact
StoreGraph(j) ==
    /\ job[j].pc = "graph"
    /\ StoreArtifactSelect(j, job[j].orm, ArtifactKey("graph", "graph"),
                           [nodes |-> [k \in DOMAIN Prefix(job[j].entities, TopCount) |->
                                          job[j].entities[k].id],
                            edges |-> <<>>],
                           "orgs_compute", job[j].entities, <<>>)
    /\ UNCHANGED <<dbVars, redis, statusReq, story_queue, restOfIngestion>>

\* extract_top_organizations, then the top_orgs artifact
StageOrgsCompute(j) ==
    /\ job[j].pc = "orgs_compute"
    /\ LET x == extract_top_organizations(evidence, entities, entity_evidence, OrgLimit)
       IN /\ entities' = x.entities
          /\ entity_evidence' = x.entity_evidence
          /\ StoreArtifactSelect(j, job[j].orm, ArtifactKey("top_entities", "top_orgs"),
                                 [entities |-> x.returned], "finalize",
                                 job[j].entities, x.returned)
    /\ UNCHANGED <<snapshot, evidence, artifacts, redis, statusReq, story_queue,
                   restOfIngestion>>

\* preload_story_entity_ids after "Dedupe while preserving order": the first
\* person, then the organizations, each id at its first position only
deduped_preloads(entity_list, org_list) ==
    LET ids == (IF Len(entity_list) > 0 THEN <<entity_list[1].id>> ELSE <<>>)
                   \o [k \in DOMAIN org_list |-> org_list[k].entity.id]
        keep == {i \in DOMAIN ids : \A k \in 1..(i - 1) : ids[k] # ids[i]}
    IN [r \in 1..Cardinality(keep) |->
           ids[CHOOSE i \in keep : Cardinality({k \in keep : k < i}) = r - 1]]

\* the ids of the stories to preload: the first person and the organizations
preload_story_entity_ids(entity_list, org_list) ==
    Range(deduped_preloads(entity_list, org_list))

\* finalize without "Delete tokens from snapshot"
StageFinalize_KeepsTokens(j) ==
    /\ job[j].pc = "finalize"
    /\ LET u1 == SetProgress(snapshot, job[j].orm,
                     [entities_extracted |-> Len(job[j].entities),
                      top_5_count |-> Len(Prefix(job[j].entities, TopCount)),
                      top_orgs_count |-> Len(job[j].top_orgs)])
           u2 == SetStage(u1.row, u1.orm, "finalize")
           new == [u2.orm EXCEPT !.status = "done",
                                 !.completed_at = TRUE,
                                 !.expires_at = TRUE]
       IN /\ snapshot' = Commit(u2.row, u2.orm, new)
          /\ job' = [job EXCEPT ![j].pc = "preload", ![j].orm = new]
    /\ UNCHANGED <<evidence, entities, entity_evidence, artifacts,
                   redis, statusReq, story_queue,
                   restOfIngestion>>

\* stage finalize: the counts, the stage, then the commit that clears the
\* tokens and sets the status done
StageFinalize(j) ==
    /\ job[j].pc = "finalize"
    /\ LET u1 == SetProgress(snapshot, job[j].orm,
                     [entities_extracted |-> Len(job[j].entities),
                      top_5_count |-> Len(Prefix(job[j].entities, TopCount)),
                      top_orgs_count |-> Len(job[j].top_orgs)])
           u2 == SetStage(u1.row, u1.orm, "finalize")
           new == [u2.orm EXCEPT !.access_token_encrypted = FALSE,
                                 !.refresh_token_encrypted = FALSE,
                                 !.token_expiry = FALSE,
                                 !.status = "done",
                                 !.completed_at = TRUE,
                                 !.expires_at = TRUE]
       IN /\ snapshot' = Commit(u2.row, u2.orm, new)
          /\ job' = [job EXCEPT ![j].pc = "preload", ![j].orm = new]
    /\ UNCHANGED <<evidence, entities, entity_evidence, artifacts,
                   redis, statusReq, story_queue,
                   restOfIngestion>>

\* the preload loop with a failure that is not caught: the handler of the
\* try block marks the snapshot failed
PreloadStories_FailureEscapes(j) ==
    /\ job[j].pc = "preload"
    /\ LET ids == deduped_preloads(job[j].entities, job[j].top_orgs) IN
       \E n \in 0..Len(ids) :
          /\ story_queue' = story_queue \cup Range(Prefix(ids, n))
          /\ IF n = Len(ids)
             THEN /\ job' = [job EXCEPT ![j] = Returned(j, "done", Null)]
                  /\ snapshot' = snapshot
             ELSE HandleException(j, snapshot, "HttpError")
    /\ UNCHANGED <<evidence, entities, entity_evidence, artifacts,
                   redis, statusReq, restOfIngestion>>

\* the preload story jobs are submitted in list order; get_queue or the
\* enqueue of entry n + 1 may raise, which is logged and swallowed
PreloadStories(j) ==
    /\ job[j].pc = "preload"
    /\ LET ids == deduped_preloads(job[j].entities, job[j].top_orgs) IN
       \E n \in 0..Len(ids) :
          story_queue' = story_queue \cup Range(Prefix(ids, n))
    /\ job' = [job EXCEPT ![j] = Returned(j, "done", Null)]
    /\ UNCHANGED <<dbVars, redis, statusReq, restOfIngestion>>

\* a statement of the stage raises: an API call after the stage was
\* written (HttpError), or a database call that times out (TimeoutError)
StageRaises(j) ==
    /\ job[j].pc \in StagePcs
    /\ \E exc \in {"TimeoutError"} \cup
                  (IF job[j].pc \in ApiPcs THEN {"HttpError"} ELSE {}) :
          HandleException(j, IF exc = "HttpError"
                             THEN SetStage(snapshot, job[j].orm, job[j].pc).row
                             ELSE snapshot, exc)
    /\ UNCHANGED <<evidence, entities, entity_evidence, artifacts,
                   redis, statusReq, story_queue,
                   restOfIngestion>>

\* the worker process is killed while it runs the job
WorkerDies(j) ==
    /\ job[j].pc \in StagePcs \cup {"preload"}
    /\ job' = [job EXCEPT ![j] = [NoJob EXCEPT !.pc = "dead"]]
    /\ UNCHANGED <<dbVars, redis, statusReq, story_queue, restOfIngestion>>

\* the queue backend is restarted or flushed: its job keys are gone
RedisFlush ==
    /\ redis # {}
    /\ redis' = {}
    /\ job' = [k \in Jobs |-> IF job[k].pc = "enqueued"
                              THEN [NoJob EXCEPT !.pc = "lost"] ELSE job[k]]
    /\ UNCHANGED <<dbVars, statusReq, story_queue, restOfIngestion>>

(***************************************************************************)
(* snapshot_status (api/routes/snapshot.py)                                *)
(***************************************************************************)
\* the columns of the row that the request reads and writes
Seen(row) == [status |-> row.status, ingest_job_id |-> row.ingest_job_id]

NoRequest == [pc |-> "idle", seen |-> Seen(NewSnapshot)]

\* the request selects the snapshot and finds it queued or running
StatusRead ==
    /\ statusReq.pc = "idle"
    /\ snapshot.status \in {"queued", "running"}
    /\ statusReq' = [pc |-> "check", seen |-> Seen(snapshot)]
    /\ UNCHANGED <<dbVars, redis, job, story_queue, restOfIngestion>>

\* get_queue or Job.fetch raises: "except Exception: pass"
StatusQueueDown ==
    /\ statusReq.pc = "check"
    /\ statusReq' = NoRequest
    /\ UNCHANGED <<dbVars, redis, job, story_queue, restOfIngestion>>

\* Job.fetch finds the job of ingest_job_id
StatusJobExists ==
    /\ statusReq.pc = "check"
    /\ statusReq.seen.ingest_job_id \in redis
    /\ statusReq' = NoRequest
    /\ UNCHANGED <<dbVars, redis, job, story_queue, restOfIngestion>>

\* no such job: a new job is submitted and the snapshot set to queued
StatusRequeue ==
    /\ statusReq.pc = "check"
    /\ statusReq.seen.ingest_job_id \notin redis
    /\ \E j \in Jobs :
          /\ job[j].pc = "absent"
          /\ \A k \in Jobs : job[k].pc = "absent" => j <= k
          /\ job' = [job EXCEPT ![j].pc = "enqueued"]
          /\ redis' = redis \cup {j}
          /\ snapshot' = Commit(snapshot, statusReq.seen @@ snapshot,
                                [ingest_job_id |-> j, status |-> "queued"] @@ snapshot)
    /\ statusReq' = NoRequest
    /\ UNCHANGED <<evidence, entities, entity_evidence, artifacts, story_queue,
                   restOfIngestion>>

NoArtifacts == [k \in {} |-> 0]

\* the state that google_callback leaves: the snapshot queued, its job submitted
InitIngestion ==
    /\ source = SourceRows
    /\ snapshot = [NewSnapshot EXCEPT !.ingest_job_id = 1]
    /\ evidence = {}
    /\ entities = {}
    /\ entity_evidence = {}
    /\ artifacts = NoArtifacts
    /\ redis = {1}
    /\ job = [j \in Jobs |-> IF j = 1 THEN [NoJob EXCEPT !.pc = "enqueued"] ELSE NoJob]
    /\ statusReq = NoRequest
    /\ story_queue = {}

NextIngestion ==
    \/ \E j \in Jobs :
          \/ LoadSnapshot(j)
          \/ StageInit(j)
          \/ StageGmailList(j)
          \/ StageGmailFetch(j)
          \/ StageCalendarFetch(j)
          \/ StageWrappedCompute(j)
          \/ StoreArtifactCommit(j)
          \/ StageEntitiesCompute(j)
          \/ StoreGraph(j)
          \/ StageOrgsCompute(j)
          \/ StageFinalize(j)
          \/ PreloadStories(j)
          \/ StageRaises(j)
          \/ WorkerDies(j)
    \/ RedisFlush
    \/ StatusRead
    \/ StatusQueueDown
    \/ StatusJobExists
    \/ StatusRequeue

(***************************************************************************)
(* Dates.  A Python date value is [form, a, b, c, ws]:                     *)
(*   form "nonstr"  not a str (number, null, list)                         *)
(*   form "empty"   ""                                                     *)
(*   form "iso"     "aaaa-bb-cc", four, two and two digits                 *)
(*   form "iso1"    "a-b-c" with a one-digit month or day ("2024-3-1")     *)
(*   form "ymd"     "aaaa/bb/cc"                                           *)
(*   form "slash"   "a/b/cccc"                                             *)
(*   form "long"    "March 1, 2024", "Mar 1, 2024", "1 March 2024",        *)
(*                  "1 Mar 2024": year a, month b, day c                   *)
(*   form "text"    any other text                                         *)
(* ws: the text has leading or trailing whitespace.                        *)
(***************************************************************************)
Date(form, a, b, c) == [form |-> form, a |-> a, b |-> b, c |-> c, ws |-> FALSE]

None == Date("none", 0, 0, 0)

IsLeap(y) == (y % 4 = 0 /\ y % 100 # 0) \/ y % 400 = 0

DaysIn(y, m) ==
    IF m = 2 THEN (IF IsLeap(y) THEN 29 ELSE 28)
    ELSE IF m \in {4, 6, 9, 11} THEN 30 ELSE 31

\* datetime.strptime accepts the fields iff they form a calendar date
ValidDate(y, m, d) == y \in 1..9999 /\ m \in 1..12 /\ d \in 1..DaysIn(y, m)

\* strptime over the listed formats, in order, then strftime("%Y-%m-%d")
TryFormats(s) ==
    IF s.form \in {"iso", "iso1", "ymd", "long"}
    THEN IF ValidDate(s.a, s.b, s.c) THEN Date("iso", s.a, s.b, s.c) ELSE None
    ELSE IF s.form = "slash"
    THEN IF ValidDate(s.c, s.a, s.b) THEN Date("iso", s.c, s.a, s.b)      \* %m/%d/%Y
         ELSE IF ValidDate(s.c, s.b, s.a) THEN Date("iso", s.c, s.b, s.a) \* %d/%m/%Y
         ELSE None
    ELSE None

_normalize_date(date_str) ==
    IF date_str.form \in {"nonstr", "empty", "none"} THEN None
    ELSE LET stripped == [date_str EXCEPT !.ws = FALSE] IN
         IF stripped.form = "iso" THEN stripped      \* ^\d{4}-\d{2}-\d{2}$
         ELSE TryFormats(stripped)

(***************************************************************************)
(* story_agent.generate_story                                              *)
(***************************************************************************)
Str(k) == [isStr |-> TRUE, v |-> k]
Num(k) == [isStr |-> FALSE, v |-> k]
List(entries) == [isList |-> TRUE, entries |-> entries]
NotAList == [isList |-> FALSE, entries |-> <<>>]

\* evidence_items = evidence_list[:MAX_EVIDENCE_IDS_PER_STORY]
EvidenceItems(evidence_list) == Prefix(evidence_list, MAX_EVIDENCE_IDS_PER_STORY)

\* allowed_ids = {str(e["id"]) for e in evidence_items if e.get("id")}
AllowedIds(evidence_items) ==
    {evidence_items[i].id : i \in 1..Len(evidence_items)} \ {0}

\* evidence_map[eid]: a dict keeps the last item of an id
EvidenceMapGet(evidence_items, eid) ==
    evidence_items[Max({i \in 1..Len(evidence_items) : evidence_items[i].id = eid})]

\* the loop of normalize_ids: an entry is appended when it is a str, is allowed
\* and is not yet in filtered, i.e. no earlier entry of the list equals it
FilterIds(entries, allowed_ids) ==
    LET at == [i \in 1..Len(entries) |-> [i |-> i, entry |-> entries[i]]]
        kept == SelectSeq(at, LAMBDA p :
                    /\ p.entry.isStr
                    /\ p.entry.v \in allowed_ids
                    /\ \A j \in 1..(p.i - 1) : entries[j] # p.entry)
    IN [k \in 1..Len(kept) |-> kept[k].entry]

FilterIds_NoAllowedCheck(entries, allowed_ids) ==
    LET at == [i \in 1..Len(entries) |-> [i |-> i, entry |-> entries[i]]]
        kept == SelectSeq(at, LAMBDA p :
                    /\ p.entry.isStr
                    /\ \A j \in 1..(p.i - 1) : entries[j] # p.entry)
    IN [k \in 1..Len(kept) |-> kept[k].entry]

normalize_ids_NoAllowedCheck(value, allowed_ids) ==
    IF ~value.isList THEN <<>> ELSE FilterIds_NoAllowedCheck(value.entries, allowed_ids)

normalize_ids(value, allowed_ids) ==
    IF ~value.isList THEN <<>> ELSE FilterIds(value.entries, allowed_ids)

RECURSIVE _get_date_from_evidence(_, _)
_get_date_from_evidence(evidence_ids, evidence_items) ==
    IF evidence_ids = <<>> THEN None
    ELSE LET ev == EvidenceMapGet(evidence_items, Head(evidence_ids).v)
             normalized == _normalize_date(ev.date)
         IN IF normalized # None THEN normalized
            ELSE _get_date_from_evidence(Tail(evidence_ids), evidence_items)

\* body of the loop over the timeline, lines 272-290
TimelineItem_NoFallback(item, evidence_items) ==
    IF ~item.isDict THEN item
    ELSE LET evidence_ids == normalize_ids(item.evidence_ids, AllowedIds(evidence_items))
             normalized_date == _normalize_date(item.date)
         IN [item EXCEPT !.evidence_ids = List(evidence_ids),
                         !.date = IF normalized_date # None THEN normalized_date ELSE @,
                         !.invalid = FALSE]

TimelineItem(item, evidence_items) ==
    IF ~item.isDict THEN item
    ELSE LET evidence_ids == normalize_ids(item.evidence_ids, AllowedIds(evidence_items))
             parsed == _normalize_date(item.date)
             normalized_date ==
                 IF parsed = None /\ evidence_ids # <<>>
                 THEN _get_date_from_evidence(evidence_ids, evidence_items)
                 ELSE parsed
         IN [item EXCEPT !.evidence_ids = List(evidence_ids),
                         !.date = IF normalized_date # None THEN normalized_date ELSE @,
                         !.invalid = (normalized_date = None)]

\* body of the loop over the claims, lines 295-300
ClaimItem(item, evidence_items) ==
    IF ~item.isDict THEN item
    ELSE [item EXCEPT !.evidence_ids =
              List(normalize_ids(item.evidence_ids, AllowedIds(evidence_items)))]

\* total_citations, counted over every dict item the loops visit
TotalCitations(items) ==
    SumLens([i \in 1..Len(items) |->
                 IF items[i].isDict THEN items[i].evidence_ids.entries ELSE <<>>])

\* an over-citation loop that clears an item that does not fit as a whole
\* and goes on spending the budget on the items after it
RECURSIVE Truncate_WholeItems(_, _)
Truncate_WholeItems(items, remaining) ==
    IF items = <<>> THEN [items |-> <<>>, remaining |-> remaining]
    ELSE LET item == Head(items) IN
         IF ~item.isDict
         THEN LET rest == Truncate_WholeItems(Tail(items), remaining)
              IN [rest EXCEPT !.items = <<item>> \o @]
         ELSE LET kept == IF Len(item.evidence_ids.entries) <= remaining
                          THEN item.evidence_ids.entries ELSE <<>>
                  rest == Truncate_WholeItems(Tail(items), remaining - Len(kept))
              IN [rest EXCEPT !.items = <<[item EXCEPT !.evidence_ids = List(kept)]>> \o @]

\* the over-citation loop, lines 303-315: returns the items and what remains
RECURSIVE Truncate(_, _)
Truncate(items, remaining) ==
    IF items = <<>> THEN [items |-> <<>>, remaining |-> remaining]
    ELSE LET item == Head(items) IN
         IF ~item.isDict
         THEN LET rest == Truncate(Tail(items), remaining)
              IN [rest EXCEPT !.items = <<item>> \o @]
         ELSE LET kept == Prefix(item.evidence_ids.entries,
                                 IF remaining > 0 THEN remaining ELSE 0)
                  rest == Truncate(Tail(items), remaining - Len(kept))
              IN [rest EXCEPT !.items = <<[item EXCEPT !.evidence_ids = List(kept)]>> \o @]

FallbackStory ==
    [fallback |-> TRUE, title |-> "default", timeline |-> <<>>, claims |-> <<>>]

generate_story_NoBudget(evidence_list, data) ==
    IF data.failed THEN FallbackStory
    ELSE LET evidence_items == EvidenceItems(evidence_list)
             timeline0 == IF data.timelineIsList THEN data.timeline ELSE <<>>
             claims0 == IF data.claimsIsList THEN data.claims ELSE <<>>
             visited == [i \in 1..Len(timeline0) |-> TimelineItem(timeline0[i], evidence_items)]
             timeline == SelectSeq(visited, LAMBDA t : t.isDict /\ ~t.invalid)
             claims == [i \in 1..Len(claims0) |-> ClaimItem(claims0[i], evidence_items)]
         IN [fallback |-> FALSE,
             title |-> IF data.hasTitle THEN "model" ELSE "default",
             timeline |-> timeline,
             claims |-> claims]

generate_story(evidence_list, data) ==
    IF data.failed THEN FallbackStory
    ELSE LET evidence_items == EvidenceItems(evidence_list)
             timeline0 == IF data.timelineIsList THEN data.timeline ELSE <<>>
             claims0 == IF data.claimsIsList THEN data.claims ELSE <<>>
             visited == [i \in 1..Len(timeline0) |-> TimelineItem(timeline0[i], evidence_items)]
             timeline == SelectSeq(visited, LAMBDA t : t.isDict /\ ~t.invalid)
             claims == [i \in 1..Len(claims0) |-> ClaimItem(claims0[i], evidence_items)]
             total_citations == TotalCitations(visited) + TotalCitations(claims)
             over == total_citations > MAX_EVIDENCE_IDS_PER_STORY
             cutT == Truncate(timeline, MAX_EVIDENCE_IDS_PER_STORY)
             cutC == Truncate(claims, cutT.remaining)
         IN [fallback |-> FALSE,
             title |-> IF data.hasTitle THEN "model" ELSE "default",
             timeline |-> IF over THEN cutT.items ELSE timeline,
             claims |-> IF over THEN cutC.items ELSE claims]

(***************************************************************************)
(* Inputs of the Story Writer call                                         *)
(***************************************************************************)
IsoDay(k) == Date("iso", 2024, 1 + (((k - 1) \div 28) % 12), 1 + ((k - 1) % 28))

\* ids 1..n; the first item has no date ("" when occurred_at is missing)
DatedEvidence(n) ==
    [k \in 1..n |-> [id |-> k, date |-> IF k = 1 THEN Date("empty", 0, 0, 0) ELSE IsoDay(k)]]

EvidenceLists ==
    { DatedEvidence(2),
      DatedEvidence(EvidenceCount),
      DatedEvidence(MAX_EVIDENCE_IDS_PER_STORY + 1) }

InventedId == MAX_EVIDENCE_IDS_PER_STORY + 1000

\* what a model may put under "evidence_ids"
AllIds(evidence_list) == List([k \in 1..Len(evidence_list) |-> Str(evidence_list[k].id)])
MixedIds == List(<<Str(2), Str(InventedId), Str(2), Num(1), Str(1)>>)
FirstId == List(<<Str(1)>>)
NoIds == List(<<>>)

Dict(evidence_ids, date) ==
    [isDict |-> TRUE, description |-> 0, evidence_ids |-> evidence_ids,
     date |-> date, invalid |-> FALSE]

NotADict ==
    [isDict |-> FALSE, description |-> 0, evidence_ids |-> NotAList,
     date |-> Date("nonstr", 0, 0, 0), invalid |-> FALSE]

\* timeline entries of a model output: every kind of citation list, each with a
\* date that parses and with one that does not
TimelineShapes(evidence_list) ==
    { Dict(AllIds(evidence_list), Date("iso", 2024, 3, 1)),               \* "2024-03-01"
      Dict(AllIds(evidence_list), Date("text", 0, 0, 0)),                 \* "early spring"
      Dict(MixedIds, [Date("slash", 13, 1, 2024) EXCEPT !.ws = TRUE]),    \* " 13/01/2024"
      Dict(MixedIds, Date("nonstr", 0, 0, 0)),                            \* null
      Dict(FirstId, Date("iso", 2024, 13, 45)),                           \* "2024-13-45"
      Dict(FirstId, Date("text", 0, 0, 0)),
      Dict(NoIds, Date("iso1", 2024, 3, 1)),                              \* "2024-3-1"
      Dict(NoIds, Date("empty", 0, 0, 0)),                                \* ""
      Dict(NotAList, Date("long", 2024, 3, 1)),                           \* "March 1, 2024"
      Dict(NotAList, Date("slash", 13, 13, 2024)),                        \* "13/13/2024"
      NotADict }

ClaimShapes(evidence_list) ==
    { Dict(AllIds(evidence_list), Date("nonstr", 0, 0, 0)),
      Dict(MixedIds, Date("nonstr", 0, 0, 0)),
      Dict(NotAList, Date("nonstr", 0, 0, 0)),
      NotADict }

\* lists of at most n items; the description / text of an item is its position
Numbered(S, n) ==
    UNION {{[i \in 1..k |-> [f[i] EXCEPT !.description = i]] : f \in [1..k -> S]} : k \in 0..n}

LlmFailure ==
    [failed |-> TRUE, hasTitle |-> FALSE, timelineIsList |-> FALSE, timeline |-> <<>>,
     claimsIsList |-> FALSE, claims |-> <<>>]

\* a JSON object without the expected keys, or with non-list values under them
EmptyObject == [LlmFailure EXCEPT !.failed = FALSE]

ModelOutputs(evidence_list) ==
    {[failed |-> FALSE, hasTitle |-> TRUE, timelineIsList |-> TRUE, timeline |-> t,
      claimsIsList |-> TRUE, claims |-> c] :
        t \in Numbered(TimelineShapes(evidence_list), MaxTimeline),
        c \in Numbered(ClaimShapes(evidence_list), MaxClaims)}
    \cup {LlmFailure, EmptyObject}

(***************************************************************************)
(* Specification of one Story Writer call                                  *)
(***************************************************************************)
InitWriter ==
    /\ wPc = "call"
    /\ wEvidence \in EvidenceLists
    /\ wData = LlmFailure
    /\ wStory = FallbackStory

\* no Story Writer call is under way
NoWriter ==
    /\ wPc = "idle"
    /\ wEvidence = <<>>
    /\ wData = LlmFailure
    /\ wStory = FallbackStory

\* the model answers with JSON: lines 251-323
StoryWriterReturns ==
    /\ wPc = "call"
    /\ \E data \in ModelOutputs(wEvidence) \ {LlmFailure} :
          /\ wData' = data
          /\ wStory' = generate_story(wEvidence, data)
    /\ wPc' = "returned"
    /\ UNCHANGED <<wEvidence, restOfWriter>>

\* call_llm_json raises: lines 325-333
StoryWriterFallsBack ==
    /\ wPc = "call"
    /\ wData' = LlmFailure
    /\ wStory' = generate_story(wEvidence, LlmFailure)
    /\ wPc' = "returned"
    /\ UNCHANGED <<wEvidence, restOfWriter>>

NextWriter == StoryWriterReturns \/ StoryWriterFallsBack


(***************************************************************************)
(* Batched summaries: thread_agent.summarize_threads_batch and             *)
(* meeting_agent.summarize_meetings_batch.  An input is [id, size]: the    *)
(* thread_id or event_id that create_entity_dossier made with str(), 0     *)
(* for "", and the number of messages or attendees it carries.  The text   *)
(* of a summary is kept as the place it comes from.                        *)
(***************************************************************************)
MaxInputs == 2        \* threads or events passed to one batched call
MaxItems == 2         \* entries of the list in the model's answer

BatchIds == 0..MaxInputs

RECURSIVE DistinctSeqs(_, _)
\* the lists of at most n inputs with distinct ids
DistinctSeqs(ids, n) ==
    IF n = 0 THEN {<<>>}
    ELSE {<<>>} \cup
         UNION {{<<[id |-> k, size |-> z]>> \o rest :
                    rest \in DistinctSeqs(ids \ {k}, n - 1), z \in 0..1} : k \in ids}

BatchInputs == DistinctSeqs(BatchIds, MaxInputs)

UnknownId == MaxInputs + 1

Missing == [isStr |-> FALSE, v |-> 0 - 1]

\* what the model may put under "thread_id" / "event_id": an id of the
\* input, an id that is not, "" or blanks, a number, nothing
ItemIds == {Str(k) : k \in BatchIds \cup {UnknownId}} \cup {Num(1), Missing}

\* "message_count" of an item: an int, a string that int() takes, a string
\* that it does not, null
MessageCounts ==
    {[kind |-> "int", v |-> 7], [kind |-> "numstr", v |-> 8],
     [kind |-> "text", v |-> 0], [kind |-> "none", v |-> 0]}

\* "is_recurring" of an item: a bool, a string, a number, or no such key
Recurrings ==
    {[kind |-> "bool", v |-> TRUE], [kind |-> "str", v |-> TRUE],
     [kind |-> "str", v |-> FALSE], [kind |-> "other", v |-> TRUE],
     [kind |-> "missing", v |-> FALSE]}

\* "themes" and "milestones" of a thread item, "topics" of a meeting item:
\* a list of strings, a list with entries that are not strings, a value that
\* is not a list, or no such key
ThemeLists == {"strings", "other", "notalist", "none"}

NotAnItem ==
    [isDict |-> FALSE, id |-> Missing, message_count |-> [kind |-> "none", v |-> 0],
     is_recurring |-> [kind |-> "missing", v |-> FALSE], themes |-> "none"]

\* items of a "threads" answer: every kind of id, and for one id of the
\* input every kind of message_count
ThreadItems ==
    {[NotAnItem EXCEPT !.isDict = TRUE, !.id = i] : i \in ItemIds}
    \cup {[NotAnItem EXCEPT !.isDict = TRUE, !.id = Str(1), !.message_count = c] :
              c \in MessageCounts}
    \cup {[NotAnItem EXCEPT !.isDict = TRUE, !.id = Str(1), !.themes = t] :
              t \in ThemeLists}
    \cup {NotAnItem}

\* items of a "meetings" answer
MeetingItems ==
    {[NotAnItem EXCEPT !.isDict = TRUE, !.id = i] : i \in ItemIds}
    \cup {[NotAnItem EXCEPT !.isDict = TRUE, !.id = Str(1), !.is_recurring = r] :
              r \in Recurrings}
    \cup {[NotAnItem EXCEPT !.isDict = TRUE, !.id = Str(1), !.themes = t] :
              t \in ThemeLists}
    \cup {NotAnItem}

\* lists of at most n entries of S
SeqsUpTo(S, n) == UNION {[1..k -> S] : k \in 0..n}

BatchFailure == [failed |-> TRUE, isDict |-> FALSE, itemsIsList |-> FALSE, items |-> <<>>]

\* the batched call raises, or returns something that is not an object, or
\* an object whose "threads" / "meetings" is not a list
FailedOutputs ==
    {BatchFailure,
     [BatchFailure EXCEPT !.failed = FALSE],
     [BatchFailure EXCEPT !.failed = FALSE, !.isDict = TRUE]}

\* the batched call returns an object with a list (empty when the key is absent)
ListOutputs(items) ==
    {[failed |-> FALSE, isDict |-> TRUE, itemsIsList |-> TRUE, items |-> l] :
        l \in SeqsUpTo(items, MaxItems)}

\* what call_llm_json produces for a single-item call
\* it raises, returns something that is not an object, an object without
\* the keys, one as the prompt asks, or one whose values have other types
SingleOutputs == {"raises", "nondict", "object", "full", "odd"}

\* by_id.get(tid, {}): the last item whose id is the non-blank string tid
ById(items, tid) ==
    LET found == {j \in 1..Len(items) :
                     /\ items[j].isDict
                     /\ items[j].id.isStr
                     /\ items[j].id.v # 0
                     /\ items[j].id.v = tid}
    IN IF found = {} THEN [NotAnItem EXCEPT !.isDict = TRUE]
       ELSE items[Max(found)]

\* the summary built from the item of by_id, or from {} when there is none
ThreadSummaryOf(thread, item) ==
    [id |-> thread.id,
     text |-> IF item.id = Missing THEN "" ELSE "model",
     message_count |-> IF item.message_count.kind \in {"int", "numstr"}
                       THEN item.message_count.v ELSE thread.size,
     is_recurring |-> FALSE,
     themes |-> IF item.themes = "notalist" THEN "none" ELSE item.themes]

MeetingSummaryOf(event, item) ==
    [id |-> event.id,
     text |-> IF item.id = Missing THEN "" ELSE "model",
     message_count |-> 0,
     is_recurring |-> IF item.is_recurring.kind = "missing" THEN FALSE
                      ELSE item.is_recurring.v,
     themes |-> IF item.themes = "notalist" THEN "none" ELSE item.themes]

\* summarize_thread: "Empty thread" without a call, the model's fields, or
\* the basic summary when the call or the reading of its answer raises
summarize_thread(thread, out) ==
    [id |-> thread.id,
     text |-> IF thread.size = 0 THEN "Empty thread"
              ELSE IF out \in {"raises", "nondict"} THEN "basic"
              ELSE IF out = "object" THEN "" ELSE "model",
     message_count |-> IF thread.size # 0 /\ out = "full" THEN 7 ELSE thread.size,
     is_recurring |-> FALSE,
     themes |-> IF thread.size = 0 THEN "none"
                ELSE IF out = "full" THEN "strings"
                ELSE IF out = "odd" THEN "other" ELSE "none"]

\* summarize_meeting
summarize_meeting(event, out) ==
    [id |-> event.id,
     text |-> IF out \in {"raises", "nondict"} THEN "basic"
              ELSE IF out = "object" THEN "" ELSE "model",
     message_count |-> 0,
     is_recurring |-> out = "full",
     themes |-> IF out = "full" THEN "strings"
                ELSE IF out = "odd" THEN "other" ELSE "none"]

\* the except branch is taken when the call raises, data has no get, or
\* the list under the key is not a list
BatchRaises(data) == data.failed \/ ~data.isDict \/ ~data.itemsIsList

\* one summary per item of the model's answer instead of one per input
summarize_threads_batch_ByModelItems(threads, data, singles) ==
    IF Len(threads) = 0 THEN <<>>
    ELSE IF BatchRaises(data)
    THEN [i \in 1..Len(threads) |-> summarize_thread(threads[i], singles[i])]
    ELSE [j \in 1..Len(data.items) |->
             ThreadSummaryOf([id |-> IF data.items[j].id.isStr
                                     THEN data.items[j].id.v ELSE 0,
                              size |-> 0], data.items[j])]

summarize_threads_batch(threads, data, singles) ==
    IF Len(threads) = 0 THEN <<>>
    ELSE IF BatchRaises(data)
    THEN [i \in 1..Len(threads) |-> summarize_thread(threads[i], singles[i])]
    ELSE [i \in 1..Len(threads) |->
             ThreadSummaryOf(threads[i], ById(data.items, threads[i].id))]

summarize_meetings_batch(events, data, singles) ==
    IF Len(events) = 0 THEN <<>>
    ELSE IF BatchRaises(data)
    THEN [i \in 1..Len(events) |-> summarize_meeting(events[i], singles[i])]
    ELSE [i \in 1..Len(events) |->
             MeetingSummaryOf(events[i], ById(data.items, events[i].id))]

InitBatch ==
    /\ bPc = "call"
    /\ bInputs \in BatchInputs
    /\ bData = BatchFailure
    /\ bOut = <<>>

\* no batched call is under way
NoBatch ==
    /\ bPc = "idle"
    /\ bInputs = <<>>
    /\ bData = BatchFailure
    /\ bOut = <<>>

\* the batched call answers with a list: lines 178-219
ThreadsBatchReturns ==
    /\ bPc = "call"
    /\ \E data \in ListOutputs(ThreadItems) :
          /\ bData' = data
          /\ bOut' = summarize_threads_batch(bInputs, data, <<>>)
    /\ bPc' = "threads"
    /\ UNCHANGED <<bInputs, restOfBatch>>

\* the batched call fails: one summarize_thread call per input, lines 221-237
ThreadsBatchFallsBack ==
    /\ bPc = "call"
    /\ \E data \in FailedOutputs, singles \in [1..Len(bInputs) -> SingleOutputs] :
          /\ bData' = data
          /\ bOut' = summarize_threads_batch(bInputs, data, singles)
    /\ bPc' = "threads"
    /\ UNCHANGED <<bInputs, restOfBatch>>

MeetingsBatchReturns ==
    /\ bPc = "call"
    /\ \E data \in ListOutputs(MeetingItems) :
          /\ bData' = data
          /\ bOut' = summarize_meetings_batch(bInputs, data, <<>>)
    /\ bPc' = "meetings"
    /\ UNCHANGED <<bInputs, restOfBatch>>

MeetingsBatchFallsBack ==
    /\ bPc = "call"
    /\ \E data \in FailedOutputs, singles \in [1..Len(bInputs) -> SingleOutputs] :
          /\ bData' = data
          /\ bOut' = summarize_meetings_batch(bInputs, data, singles)
    /\ bPc' = "meetings"
    /\ UNCHANGED <<bInputs, restOfBatch>>

NextBatch ==
    \/ ThreadsBatchReturns
    \/ ThreadsBatchFallsBack
    \/ MeetingsBatchReturns
    \/ MeetingsBatchFallsBack

(***************************************************************************)
(* Story jobs: run_story_generation and generate_entity_story              *)
(***************************************************************************)
MaxStoryJobs == 2     \* run_story_generation executions

StoryJobs == 1..MaxStoryJobs

\* the EvidenceItem.id of the stored rows
EvidenceId == [m1 |-> 1, e1 |-> 2]

EntityArtifactKey(type, key, entity_id) == <<type, key, entity_id>>

StoryKey(entity_id) == EntityArtifactKey("story_text", "entity:story", entity_id)

VerifyKey(entity_id) == EntityArtifactKey("story_verification", "entity:verify", entity_id)

DossierKey(entity_id) == EntityArtifactKey("entity_dossier", "entity:dossier", entity_id)

\* the progress_counts when that ingestion stored its last artifact
IngestedCounts ==
    [preflight_passed |-> 1,
     messages_estimated |-> Cardinality(Inbox),
     messages_listed |-> Cardinality(Inbox),
     messages_fetched |-> Cardinality(Inbox),
     messages_stored |-> Cardinality(Inbox),
     events_fetched |-> Cardinality(Calendar),
     events_stored |-> Cardinality(Calendar)]

\* the snapshot of that ingestion before its finalize stage
RunningSnapshot ==
    [NewSnapshot EXCEPT !.status = "running", !.stage = "entities_compute",
                        !.ingest_job_id = 1, !.progress_counts = IngestedCounts]

IngestedPersons == extract_entities(Window, {}, {})

IngestedEntities ==
    extract_top_organizations(Window, IngestedPersons.entities,
                              IngestedPersons.entity_evidence, OrgLimit)

\* the snapshot when that ingestion has finished
DoneSnapshot ==
    [RunningSnapshot EXCEPT
        !.status = "done", !.stage = "finalize",
        !.access_token_encrypted = FALSE, !.refresh_token_encrypted = FALSE,
        !.token_expiry = FALSE, !.completed_at = TRUE, !.expires_at = TRUE,
        !.progress_counts =
            [entities_extracted |-> Len(IngestedPersons.returned),
             top_5_count |-> Len(Prefix(IngestedPersons.returned, TopCount)),
             top_orgs_count |-> Len(IngestedEntities.returned)] @@ IngestedCounts]

\* an entity id that no Entity row carries
UnknownEntity == Cardinality(IngestedEntities.entities) + 1

\* an Entity row of another snapshot, which "select(Entity).where(Entity.id
\* == entity_uuid)" finds as well: no EntityEvidence row of this snapshot
\* links it
ForeignEntity ==
    [id |-> UnknownEntity + 1, kind |-> "person",
     primary_email |-> Email("z", "other.com"), domain |-> "other.com",
     score |-> 0, interaction_days |-> 0, meeting_count |-> 0,
     email_count |-> 0, total_meeting_minutes |-> 0]

\* gather_entity_evidence and the evidence_list built from it: the linked
\* rows by date; occurred_at is formatted with strftime("%Y-%m-%d")
StoryEvidence(entity_id) ==
    LET linked == SetToSeq({e \in evidence : <<entity_id, e>> \in entity_evidence})
        NegDay(e) == 0 - source[e].day
        ordered == SortedDesc(linked, NegDay)
    IN [k \in 1..Len(ordered) |->
           [id |-> EvidenceId[ordered[k]], date |-> IsoDay(source[ordered[k]].day)]]

\* what the Story Writer's model answers in a story job
StoryOutputs(evidence_list) ==
    {[EmptyObject EXCEPT !.hasTitle = TRUE,
                         !.timelineIsList = TRUE, !.timeline = t,
                         !.claimsIsList = TRUE, !.claims = c] :
        t \in Numbered({Dict(AllIds(evidence_list), Date("text", 0, 0, 0))}, 1),
        c \in Numbered({Dict(MixedIds, Date("nonstr", 0, 0, 0))}, 1)}
    \cup {LlmFailure}

\* what verify_story reads from the Verifier's model: issues says whether
\* the list under "issues" is non-empty
VerifierOutputs ==
    {[failed |-> f, verdict |-> v, issues |-> i] :
        f \in {FALSE}, v \in {"ok", "needs_fix"}, i \in BOOLEAN}
    \cup {[failed |-> TRUE, verdict |-> "ok", issues |-> FALSE]}

\* verify_story: a failed call is reported as verdict ok
verify_story(data) ==
    IF data.failed THEN [verdict |-> "ok", issues |-> FALSE]
    ELSE [verdict |-> data.verdict, issues |-> data.issues]

\* what the Claim Fixer's model answers: any claims and timeline
FixerOutputs ==
    {[failed |-> TRUE, hasClaims |-> FALSE, claims |-> <<>>,
      hasTimeline |-> FALSE, timeline |-> <<>>],
     [failed |-> FALSE, hasClaims |-> FALSE, claims |-> <<>>,
      hasTimeline |-> FALSE, timeline |-> <<>>],
     [failed |-> FALSE, hasClaims |-> TRUE, claims |-> <<>>,
      hasTimeline |-> TRUE, timeline |-> <<>>],
     [failed |-> FALSE, hasClaims |-> TRUE,
      claims |-> <<Dict(List(<<Str(InventedId)>>), Date("nonstr", 0, 0, 0))>>,
      hasTimeline |-> FALSE, timeline |-> <<>>]}

\* a failed call loses the drafted claims and timeline
fix_claims_EmptyOnFailure(claims, timeline, data) ==
    IF data.failed THEN [claims |-> <<>>, timeline |-> <<>>]
    ELSE [claims |-> IF data.hasClaims THEN data.claims ELSE claims,
          timeline |-> IF data.hasTimeline THEN data.timeline ELSE timeline]

\* fix_claims: data.get("claims", claims), data.get("timeline", timeline)
fix_claims(claims, timeline, data) ==
    IF data.failed THEN [claims |-> claims, timeline |-> timeline]
    ELSE [claims |-> IF data.hasClaims THEN data.claims ELSE claims,
          timeline |-> IF data.hasTimeline THEN data.timeline ELSE timeline]

NoStory ==
    [entity_id |-> 0, title |-> "none", summary |-> "none",
     timeline |-> <<>>, claims |-> <<>>,
     verification_status |-> Null, generation_error |-> Null]

NoVerification == [verdict |-> Null, issues |-> FALSE]

\* the Story Writer has not returned
NoDraft == [FallbackStory EXCEPT !.fallback = FALSE, !.title = "none"]

\* a story job that has not been submitted; its fields are the locals of
\* run_story_generation and generate_entity_story; called are the agents
\* whose model it has called, failed those of "verifier" and "fixer" whose
\* call failed
NoStoryJob ==
    [pc |-> "absent", entity_id |-> 0, evidence_list |-> <<>>,
     dossier_themes |-> "none", draft |-> NoDraft,
     verification |-> NoVerification, story_data |-> NoStory,
     called |-> {}, failed |-> {},
     pending |-> NoArtifact, result |-> NoResult]

StoryReturned(k, status, error) ==
    [NoStoryJob EXCEPT !.pc = "returned", !.entity_id = sJob[k].entity_id,
                       !.result = [status |-> status, error |-> error]]

\* the story_data of generate_entity_story; the summary of the Story
\* Writer's fallback holds the counts only
StoryData(k, draft, claims, timeline, verdict) ==
    [entity_id |-> sJob[k].entity_id, title |-> draft.title,
     summary |-> IF draft.fallback THEN "counts" ELSE "model",
     timeline |-> timeline, claims |-> claims,
     verification_status |-> verdict, generation_error |-> Null]

\* the basic story of the except branch of generate_entity_story
BasicStory(k, error) ==
    [entity_id |-> sJob[k].entity_id, title |-> "default", summary |-> "counts",
     timeline |-> <<>>, claims |-> <<>>,
     verification_status |-> Null, generation_error |-> error]

\* a story without evidence whose summary holds no name
MinimalStory_CountsOnly(k) ==
    [entity_id |-> sJob[k].entity_id, title |-> "default", summary |-> "counts",
     timeline |-> <<>>, claims |-> <<>>,
     verification_status |-> Null, generation_error |-> Null]

\* the story without evidence; summary_name is the entity whose name the
\* summary "Limited data available for {entity.name}." embeds
MinimalStory(k) ==
    [entity_id |-> sJob[k].entity_id, title |-> "default", summary |-> "limited",
     summary_name |-> sJob[k].entity_id,
     timeline |-> <<>>, claims |-> <<>>,
     verification_status |-> Null, generation_error |-> Null]

\* thread_inputs and meeting_inputs of create_entity_dossier: a thread per
\* linked message, an event per linked meeting
StoryInputs(entity_id, source_type) ==
    LET linked == SetToSeq({e \in evidence :
                               /\ <<entity_id, e>> \in entity_evidence
                               /\ source[e].source_type = source_type})
    IN [i \in 1..Len(linked) |-> [id |-> EvidenceId[linked[i]], size |-> 1]]

\* what the summarizers' model answers in a story job: the batched call
\* fails, or every input is listed, with themes (topics) of strings or of
\* other values
SummaryAnswers(inputs) ==
    {BatchFailure}
    \cup {[failed |-> FALSE, isDict |-> TRUE, itemsIsList |-> TRUE,
           items |-> [i \in 1..Len(inputs) |->
                        [NotAnItem EXCEPT !.isDict = TRUE,
                                          !.id = Str(inputs[i].id),
                                          !.themes = t]]] :
             t \in {"strings", "other"}}

SummarySingles(inputs) == [1..Len(inputs) -> {"raises", "full", "odd"}]

\* the lists that the two batched summarizers can return in a story job
ThreadSummaries(inputs) ==
    {summarize_threads_batch(inputs, data, singles) :
        data \in SummaryAnswers(inputs), singles \in SummarySingles(inputs)}

MeetingSummaries(inputs) ==
    {summarize_meetings_batch(inputs, data, singles) :
        data \in SummaryAnswers(inputs), singles \in SummarySingles(inputs)}

\* what the Dossier agent's model answers
DossierOutputs == {"raises", "full", "odd"}

\* create_dossier: the summaries are formatted before the try, and
\* ", ".join raises on themes, milestones or topics that are not strings;
\* the themes of the dossier are those of the model's answer as they come
create_dossier(thread_summaries, meeting_summaries, out) ==
    [raised |-> \/ \E i \in 1..Len(thread_summaries) :
                      thread_summaries[i].themes = "other"
                \/ \E i \in 1..Len(meeting_summaries) :
                      meeting_summaries[i].themes = "other",
     themes |-> IF Len(thread_summaries) = 0 /\ Len(meeting_summaries) = 0
                THEN "none"
                ELSE IF out = "full" THEN "strings"
                ELSE IF out = "odd" THEN "other" ELSE "none"]

\* run_story_generation without "Verify snapshot is done"
StoryLoad_NoStatusCheck(k) ==
    /\ sJob[k].pc = "enqueued"
    /\ sJob' = [sJob EXCEPT ![k] =
          IF StoryKey(sJob[k].entity_id) \in DOMAIN artifacts
          THEN StoryReturned(k, "skipped", Null)
          ELSE IF sJob[k].entity_id \notin {x.id : x \in entities}
          THEN StoryReturned(k, "failed", "Entity not found")
          ELSE [sJob[k] EXCEPT !.pc = "generate"]]
    /\ UNCHANGED <<dbVars, jobVars, story_verification_enabled, restOfStory>>

\* a worker takes the story job: run_story_generation up to the entity
StoryLoad(k) ==
    /\ sJob[k].pc = "enqueued"
    /\ sJob' = [sJob EXCEPT ![k] =
          IF snapshot.status # "done"
          THEN StoryReturned(k, "failed", "Snapshot not completed")
          ELSE IF StoryKey(sJob[k].entity_id) \in DOMAIN artifacts
          THEN StoryReturned(k, "skipped", Null)
          ELSE IF sJob[k].entity_id \notin {x.id : x \in entities}
          THEN StoryReturned(k, "failed", "Entity not found")
          ELSE [sJob[k] EXCEPT !.pc = "generate"]]
    /\ UNCHANGED <<dbVars, jobVars, story_verification_enabled, restOfStory>>

\* generate_entity_story up to the Story Writer: the evidence of the
\* entity, and with evidence create_entity_dossier: the summaries, the
\* dossier and the select of its artifact
StoryDossier(k) ==
    /\ sJob[k].pc = "generate"
    /\ LET evidence_list == StoryEvidence(sJob[k].entity_id)
           thread_inputs == StoryInputs(sJob[k].entity_id, "gmail_message")
           meeting_inputs == StoryInputs(sJob[k].entity_id, "calendar_event")
           key == DossierKey(sJob[k].entity_id)
       IN IF Len(evidence_list) = 0
          THEN sJob' = [sJob EXCEPT ![k] =
                  [sJob[k] EXCEPT !.pc = "store_story",
                                  !.story_data = MinimalStory(k),
                                  !.verification = [verdict |-> "ok", issues |-> FALSE]]]
          ELSE \E thread_summaries \in ThreadSummaries(thread_inputs),
                  meeting_summaries \in MeetingSummaries(meeting_inputs),
                  out \in DossierOutputs :
                  LET dossier == create_dossier(thread_summaries, meeting_summaries, out)
                      next == [sJob[k] EXCEPT !.evidence_list = evidence_list,
                                              !.dossier_themes = dossier.themes,
                                              !.called = @ \cup {"summarizer", "dossier"}]
                  IN sJob' = [sJob EXCEPT ![k] =
                        IF dossier.raised
                        THEN StoryReturned(k, "failed", StrOf["TypeError"])
                        ELSE IF key \in DOMAIN artifacts
                        THEN [next EXCEPT !.pc = "writer"]
                        ELSE [next EXCEPT !.pc = "store_commit",
                                          !.pending = [key |-> key, data |-> "dossier",
                                                       next |-> "writer"]]]
    /\ UNCHANGED <<dbVars, jobVars, story_verification_enabled, restOfStory>>

\* agent_generate_story; it formats the dossier before its try, and what
\* it raises there is caught by generate_entity_story, which returns the
\* basic story; without verification the draft is the story
StoryWrite(k) ==
    /\ sJob[k].pc = "writer"
    /\ \E data \in StoryOutputs(sJob[k].evidence_list) :
          LET draft == generate_story(sJob[k].evidence_list, data)
              next == [sJob[k] EXCEPT !.draft = draft,
                                      !.called = @ \cup {"writer"}]
          IN sJob' = [sJob EXCEPT ![k] =
                IF sJob[k].dossier_themes = "other"
                THEN [sJob[k] EXCEPT
                         !.pc = "store_story",
                         !.story_data = BasicStory(k, StrOf["TypeError"]),
                         !.verification = [verdict |-> "error", issues |-> TRUE]]
                ELSE IF story_verification_enabled
                THEN [next EXCEPT !.pc = "verify"]
                ELSE [next EXCEPT
                         !.pc = "store_story",
                         !.verification = [verdict |-> "skipped", issues |-> FALSE],
                         !.story_data = StoryData(k, draft, draft.claims,
                                                  draft.timeline, "skipped")]]
    /\ UNCHANGED <<dbVars, jobVars, story_verification_enabled, restOfStory>>

\* agent_verify_story; unless it asks for a fix the draft is the story
StoryVerify(k) ==
    /\ sJob[k].pc = "verify"
    /\ \E data \in VerifierOutputs :
          LET verification == verify_story(data)
              next == [sJob[k] EXCEPT
                          !.verification = verification,
                          !.called = @ \cup {"verifier"},
                          !.failed = IF data.failed THEN @ \cup {"verifier"} ELSE @]
          IN sJob' = [sJob EXCEPT ![k] =
                IF verification.verdict = "needs_fix" /\ verification.issues
                THEN [next EXCEPT !.pc = "fix"]
                ELSE [next EXCEPT
                         !.pc = "store_story",
                         !.story_data = StoryData(k, sJob[k].draft,
                                                  sJob[k].draft.claims,
                                                  sJob[k].draft.timeline,
                                                  verification.verdict)]]
    /\ UNCHANGED <<dbVars, jobVars, story_verification_enabled, restOfStory>>

\* agent_fix_claims: what it returns is the story
StoryFix(k) ==
    /\ sJob[k].pc = "fix"
    /\ \E data \in FixerOutputs :
          LET fixed == fix_claims(sJob[k].draft.claims, sJob[k].draft.timeline, data)
          IN sJob' = [sJob EXCEPT
                ![k].pc = "store_story",
                ![k].called = @ \cup {"fixer"},
                ![k].failed = IF data.failed THEN @ \cup {"fixer"} ELSE @,
                ![k].story_data =
                    StoryData(k, sJob[k].draft, fixed.claims, fixed.timeline,
                              sJob[k].verification.verdict)]
    /\ UNCHANGED <<dbVars, jobVars, story_verification_enabled, restOfStory>>

\* store_artifact of the story, up to its commit
StoryStore(k) ==
    /\ sJob[k].pc = "store_story"
    /\ LET key == StoryKey(sJob[k].entity_id)
       IN sJob' = [sJob EXCEPT ![k] =
             IF key \in DOMAIN artifacts
             THEN [sJob[k] EXCEPT !.pc = "store_verify"]
             ELSE [sJob[k] EXCEPT !.pc = "store_commit",
                                  !.pending = [key |-> key,
                                               data |-> sJob[k].story_data,
                                               next |-> "store_verify"]]]
    /\ UNCHANGED <<dbVars, jobVars, story_verification_enabled, restOfStory>>

\* store_artifact of the verification, up to its commit, and the result
StoryStoreVerification(k) ==
    /\ sJob[k].pc = "store_verify"
    /\ LET key == VerifyKey(sJob[k].entity_id)
       IN sJob' = [sJob EXCEPT ![k] =
             IF key \in DOMAIN artifacts
             THEN StoryReturned(k, "done", Null)
             ELSE [sJob[k] EXCEPT !.pc = "store_commit",
                                  !.pending = [key |-> key,
                                               data |-> sJob[k].verification,
                                               next |-> "returned"]]]
    /\ UNCHANGED <<dbVars, jobVars, story_verification_enabled, restOfStory>>

\* a commit that replaces the row of the key when there is one
StoryStoreCommit_Overwrites(k) ==
    /\ sJob[k].pc = "store_commit"
    /\ artifacts' = (sJob[k].pending.key :> sJob[k].pending.data) @@ artifacts
    /\ sJob' = [sJob EXCEPT ![k] =
           IF sJob[k].pending.next = "returned"
           THEN StoryReturned(k, "done", Null)
           ELSE [sJob[k] EXCEPT !.pc = sJob[k].pending.next,
                                !.pending = NoArtifact]]
    /\ UNCHANGED <<snapshot, evidence, entities, entity_evidence, jobVars,
                   story_verification_enabled, restOfStory>>

\* store_artifact, the commit: uq_artifact_key rejects a second row of the
\* key, store_artifact raises, and run_story_generation returns failed
StoryStoreCommit(k) ==
    /\ sJob[k].pc = "store_commit"
    /\ IF sJob[k].pending.key \in DOMAIN artifacts
       THEN /\ sJob' = [sJob EXCEPT ![k] =
                   StoryReturned(k, "failed", StrOf["IntegrityError"])]
            /\ UNCHANGED artifacts
       ELSE /\ artifacts' = (sJob[k].pending.key :> sJob[k].pending.data) @@ artifacts
            /\ sJob' = [sJob EXCEPT ![k] =
                   IF sJob[k].pending.next = "returned"
                   THEN StoryReturned(k, "done", Null)
                   ELSE [sJob[k] EXCEPT !.pc = sJob[k].pending.next,
                                        !.pending = NoArtifact]]
    /\ UNCHANGED <<snapshot, evidence, entities, entity_evidence, jobVars,
                   story_verification_enabled, restOfStory>>

\* the positions of a story job between its load and its return
RunningStory ==
    {"generate", "writer", "verify", "fix", "store_story", "store_verify",
     "store_commit"}

\* the execution of a story job ends without a return: the worker is
\* stopped or the job_timeout expires; the rows it has committed stay
StoryWorkerDies(k) ==
    /\ sJob[k].pc \in RunningStory
    /\ sJob' = [sJob EXCEPT ![k] =
           [NoStoryJob EXCEPT !.pc = "dead", !.entity_id = sJob[k].entity_id]]
    /\ UNCHANGED <<dbVars, jobVars, story_verification_enabled, restOfStory>>

NextStory ==
    \E k \in StoryJobs :
        \/ StoryLoad(k)
        \/ StoryDossier(k)
        \/ StoryWrite(k)
        \/ StoryVerify(k)
        \/ StoryFix(k)
        \/ StoryStore(k)
        \/ StoryStoreVerification(k)
        \/ StoryStoreCommit(k)

(***************************************************************************)
(* GET /crm/story/{entity_id}                                              *)
(***************************************************************************)
unlocked_story_count == 1   \* unlocked_count without an Entitlement row

\* is_locked of an Entity row of the snapshot: an org is never locked, a
\* person is unlocked by its rank in the order of the scores
Unlocked(x) ==
    /\ x \in entities
    /\ \/ x.kind = "org"
       \/ Cardinality({y \in entities :
                          /\ y.kind = "person"
                          /\ \/ y.score > x.score
                             \/ y.score = x.score /\ y.id < x.id})
              < unlocked_story_count

UnlockedIds == {x.id : x \in {y \in entities : Unlocked(y)}}

\* StoryClaim(**c) and StoryTimelineEntry(**t) accept the items
Validates(items) ==
    \A i \in 1..Len(items) : items[i].isDict /\ items[i].evidence_ids.isList

NoContent ==
    [title |-> Null, summary |-> Null, claims |-> <<>>, timeline |-> <<>>,
     error |-> Null]

\* the StoryResponse of crm_story for an unlocked entity of the snapshot;
\* status "error" is the response to the exception of a response model
StoryResponse(entity_id) ==
    IF StoryKey(entity_id) \notin DOMAIN artifacts
    THEN [status |-> "generating", entity_id |-> entity_id, content |-> NoContent]
    ELSE LET story_data == artifacts[StoryKey(entity_id)]
             content == [title |-> story_data.title,
                         summary |-> story_data.summary,
                         claims |-> story_data.claims,
                         timeline |-> story_data.timeline,
                         error |-> Null]
         IN IF story_data.generation_error \notin {Null, ""}
            THEN IF Validates(story_data.claims) /\ Validates(story_data.timeline)
                 THEN [status |-> "failed", entity_id |-> story_data.entity_id,
                       content |-> [content EXCEPT
                                       !.error = story_data.generation_error]]
                 ELSE [status |-> "error", entity_id |-> entity_id,
                       content |-> NoContent]
            ELSE IF Validates(story_data.claims) /\ Validates(story_data.timeline)
                 THEN [status |-> "ready", entity_id |-> story_data.entity_id,
                       content |-> content]
                 ELSE [status |-> "error", entity_id |-> entity_id,
                       content |-> NoContent]

\* crm_story for an unlocked entity: without a story_text artifact it
\* submits a story job, unless get_queue or enqueue raises, which is logged
CrmStory ==
    /\ snapshot.status = "done"
    /\ \E e \in UnlockedIds :
          IF StoryResponse(e).status = "generating"
          THEN \E k \in StoryJobs, raises \in BOOLEAN :
                  /\ sJob[k].pc = "absent"
                  /\ \A i \in StoryJobs : sJob[i].pc = "absent" => k <= i
                  /\ sJob' = IF raises THEN sJob
                             ELSE [sJob EXCEPT ![k].pc = "enqueued",
                                               ![k].entity_id = e]
          ELSE UNCHANGED sJob
    /\ UNCHANGED <<dbVars, jobVars, story_verification_enabled, restOfStory>>

NextCrm ==
    \/ CrmStory
    \/ \E k \in StoryJobs :
          \/ StoryLoad(k)
          \/ StoryDossier(k)
          \/ StoryWrite(k)
          \/ StoryVerify(k)
          \/ StoryFix(k)
          \/ StoryStore(k)
          \/ StoryStoreVerification(k)
          \/ StoryStoreCommit(k)

(***************************************************************************)
(* Sequential calls of store_artifact by one session                       *)
(***************************************************************************)
MaxCalls == 4         \* store_artifact calls in a row

MaxPayload == 2       \* distinct payloads

Payloads == {[payload |-> n] : n \in 1..MaxPayload}

StoreKeys == {StoryKey(1), VerifyKey(1)}

\* store_artifact that writes the row also when the key exists
store_artifact_Overwrite(rows, key, data) ==
    [artifacts |-> (key :> data) @@ rows, returned |-> data]

\* store_artifact run alone: the rows after it and the data of the
\* Artifact it returns
store_artifact(rows, key, data) ==
    IF key \in DOMAIN rows
    THEN [artifacts |-> rows, returned |-> rows[key]]
    ELSE [artifacts |-> (key :> data) @@ rows, returned |-> data]

StoreArtifactCall ==
    /\ Len(sCalls) < MaxCalls
    /\ \E key \in StoreKeys, data \in Payloads :
          LET r == store_artifact(artifacts, key, data)
          IN /\ artifacts' = r.artifacts
             /\ sCalls' = Append(sCalls, [key |-> key, data |-> data,
                                          returned |-> r.returned])
    /\ UNCHANGED <<snapshot, evidence, entities, entity_evidence, jobVars,
                   writerVars, storyVars, batchVars, extractVars, selectVars, apiVars>>

(***************************************************************************)
(* The evidence selection of generate_entity_story.  A candidate is        *)
(* [id, kind, day]: day 0 is the date "" of a row without occurred_at.     *)
(***************************************************************************)
max_entity_evidence_items == 250   \* limit of the query of the evidence rows

SmallCount == 3       \* the short candidate lists are those of 0..SmallCount

RowsPerDay == 8       \* evidence rows of one day

\* the numbers of evidence rows of an entity that are tried
CandidateCounts ==
    (0..SmallCount)
    \cup ((MAX_EVIDENCE_IDS_PER_STORY - 1)..max_entity_evidence_items)

\* combined as the two loops append it: the meetings, then the emails,
\* each newest first as the query returns them, RowsPerDay rows a day;
\* with undated, every seventh row has no date
Candidates(n, undated) ==
    [j \in 1..n |->
        [id |-> j,
         kind |-> IF j <= n \div 3 THEN "meeting" ELSE "email",
         day |-> IF undated /\ j % 7 = 0 THEN 0
                ELSE ((n - j) \div RowsPerDay) + 1]]

\* key=lambda item: item[0] or "9999-99-99"
SortKey(item) == IF item.day = 0 THEN 9999 ELSE item.day

RECURSIVE SortedByKeys(_, _)
\* the items of the smallest key in their order, then those of the next key
SortedByKeys(items, keys) ==
    IF keys = {} THEN <<>>
    ELSE LET least == CHOOSE x \in keys : \A y \in keys : x <= y
         IN SelectSeq(items, LAMBDA item : SortKey(item) = least)
            \o SortedByKeys(items, keys \ {least})

\* list.sort(key): ascending, stable
SortedByDate(items) ==
    SortedByKeys(items, {SortKey(items[i]) : i \in 1..Len(items)})

\* round down instead of to the nearest integer
round_Down(a, b) == a \div b

\* round(a / b) of Python 3 for integers a >= 0, b > 0: to the nearest
\* integer, a tie to the even one.  The quotient of the two ints is the
\* correctly rounded double, which is on the same side of a tie as a / b
\* for the lists of at most max_entity_evidence_items rows
round(a, b) ==
    LET q == a \div b
        r == a % b
    IN IF 2 * r < b THEN q
       ELSE IF 2 * r > b THEN q + 1
       ELSE IF q % 2 = 0 THEN q ELSE q + 1

\* lines 1017-1025: all of combined, or the rows at the evenly spaced indices
select_evidence(items) ==
    IF Len(items) <= MAX_EVIDENCE_IDS_PER_STORY THEN items
    ELSE LET denom == Max({1, MAX_EVIDENCE_IDS_PER_STORY - 1})
             indices == {round(i * (Len(items) - 1), denom) :
                            i \in 0..(MAX_EVIDENCE_IDS_PER_STORY - 1)}
             sorted == SelectSeq([k \in 1..Len(items) |-> k - 1],
                                 LAMBDA i : i \in indices)
         IN [k \in 1..Len(sorted) |-> items[sorted[k] + 1]]

\* no selection is under way
NoSelection ==
    /\ cPc = "none"
    /\ combined = <<>>
    /\ selected = <<>>

\* the evidence of an entity has been gathered
InitSelection ==
    /\ cPc = "gathered"
    /\ \E n \in CandidateCounts, undated \in BOOLEAN :
          combined = Candidates(n, undated)
    /\ selected = <<>>

\* generate_entity_story from the sort of combined to the selection
SelectEvidence ==
    /\ cPc = "gathered"
    /\ combined' = SortedByDate(combined)
    /\ selected' = select_evidence(combined')
    /\ cPc' = "selected"
    /\ UNCHANGED restOfSelection

\* the Story Writer is called with the evidence_list built from selected
PassToStoryWriter ==
    /\ cPc = "selected"
    /\ cPc' = "passed"
    /\ selected' = EvidenceItems(selected)
    /\ UNCHANGED <<combined, restOfSelection>>

NextSelection ==
    \/ SelectEvidence
    \/ PassToStoryWriter

(***************************************************************************)
(* Specifications                                                          *)
(***************************************************************************)
\* no story job is submitted, no session calls store_artifact in a row
(***************************************************************************)
(* The entity extraction of one snapshot: extract_entities and then        *)
(* extract_top_organizations, as the stages entities_compute and           *)
(* orgs_compute of run_ingestion call them, over the evidence stored.      *)
(***************************************************************************)
MaxEvidence == 5      \* evidence rows stored for the snapshot

\* the sets of rows that the evidence stages may have stored
EvidenceSets == {ev \in SUBSET DOMAIN source : Cardinality(ev) <= MaxEvidence}

InitExtraction ==
    /\ source = SourceRows
    /\ xPc = "evidence"
    /\ evidence \in EvidenceSets
    /\ entities = {}
    /\ entity_evidence = {}

NoExtraction == xPc = "none"

\* the call of extract_entities
ExtractPersons ==
    /\ xPc = "evidence"
    /\ LET x == extract_entities(evidence, entities, entity_evidence)
       IN /\ entities' = x.entities
          /\ entity_evidence' = x.entity_evidence
    /\ xPc' = "persons"
    /\ UNCHANGED <<snapshot, evidence, artifacts, restOfExtraction>>

\* the call of extract_top_organizations
ExtractOrganizations ==
    /\ xPc = "persons"
    /\ LET x == extract_top_organizations(evidence, entities, entity_evidence, OrgLimit)
       IN /\ entities' = x.entities
          /\ entity_evidence' = x.entity_evidence
    /\ xPc' = "orgs"
    /\ UNCHANGED <<snapshot, evidence, artifacts, restOfExtraction>>

NextExtraction == ExtractPersons \/ ExtractOrganizations

NoStoryJobs ==
    /\ sJob = [k \in StoryJobs |-> NoStoryJob]
    /\ story_verification_enabled = TRUE

NoCalls == sCalls = <<>>

\* one Story Writer call, the snapshot as google_callback left it
InitWriterCall == InitWriter /\ InitIngestion /\ NoStoryJobs /\ NoCalls /\ NoBatch /\ NoExtraction /\ NoSelection

SpecWriter == InitWriterCall /\ [][NextWriter]_vars

\* the ingestion of one snapshot
Init == InitIngestion /\ NoStoryJobs /\ NoCalls /\ NoWriter /\ NoBatch /\ NoExtraction /\ NoSelection

Next == NextIngestion

Spec == Init /\ [][Next]_vars

\* the artifacts that the ingestion stores for the two source rows
IngestedArtifacts ==
    (ArtifactKey("wrapped_cards", "wrapped") :> compute_wrapped_metrics(Window))
    @@ (ArtifactKey("top_entities", "top5") :>
            [entities |-> Prefix(IngestedPersons.returned, TopCount)])
    @@ (ArtifactKey("graph", "graph") :>
            [nodes |-> [k \in DOMAIN Prefix(IngestedPersons.returned, TopCount) |->
                           IngestedPersons.returned[k].id],
             edges |-> <<>>])
    @@ (ArtifactKey("top_entities", "top_orgs") :>
            [entities |-> IngestedEntities.returned])

\* story jobs for a snapshot that is ingested, or still running before its
\* finalize stage; a job is for an entity of the snapshot or for an unknown id
InitStory ==
    /\ source = SourceRows
    /\ snapshot \in {DoneSnapshot, RunningSnapshot}
    /\ evidence = Window
    /\ entities = IngestedEntities.entities \cup {ForeignEntity}
    /\ entity_evidence = IngestedEntities.entity_evidence
    /\ artifacts = IngestedArtifacts
    /\ redis = {1}
    /\ job = [j \in Jobs |->
                IF j = 1 /\ snapshot.status = "done"
                THEN [NoJob EXCEPT !.pc = "returned",
                                   !.result = [status |-> "done", error |-> Null]]
                ELSE IF j = 1
                THEN [NoJob EXCEPT !.pc = "finalize", !.orm = RunningSnapshot,
                                   !.access_token = TRUE,
                                   !.message_list = Inbox,
                                   !.entities = IngestedPersons.returned,
                                   !.top_orgs = IngestedEntities.returned]
                ELSE NoJob]
    /\ statusReq = NoRequest
    /\ story_queue = IF snapshot.status = "done"
                     THEN preload_story_entity_ids(IngestedPersons.returned,
                                                   IngestedEntities.returned)
                     ELSE {}
    /\ sJob \in [StoryJobs ->
                    {[NoStoryJob EXCEPT !.pc = "enqueued", !.entity_id = e] :
                        e \in {x.id : x \in IngestedEntities.entities}
                              \cup {UnknownEntity, ForeignEntity.id}}]
    /\ story_verification_enabled \in BOOLEAN
    /\ NoCalls
    /\ NoWriter
    /\ NoBatch
    /\ NoExtraction
    /\ NoSelection

SpecStory == InitStory /\ [][NextStory]_vars

\* the story jobs, each of which may end at any point of its execution
NextStoryRuns ==
    \E k \in StoryJobs :
        \/ StoryLoad(k)
        \/ StoryDossier(k)
        \/ StoryWrite(k)
        \/ StoryVerify(k)
        \/ StoryFix(k)
        \/ StoryStore(k)
        \/ StoryStoreVerification(k)
        \/ StoryStoreCommit(k)
        \/ StoryWorkerDies(k)

SpecStoryRuns == InitStory /\ [][NextStoryRuns]_vars

\* an ingested snapshot whose stories are requested through crm_story
InitCrm ==
    /\ source = SourceRows
    /\ snapshot = DoneSnapshot
    /\ evidence = Window
    /\ entities = IngestedEntities.entities
    /\ entity_evidence = IngestedEntities.entity_evidence
    /\ artifacts = IngestedArtifacts
    /\ redis = {1}
    /\ job = [j \in Jobs |->
                IF j = 1
                THEN [NoJob EXCEPT !.pc = "returned",
                                   !.result = [status |-> "done", error |-> Null]]
                ELSE NoJob]
    /\ statusReq = NoRequest
    /\ story_queue = {}
    /\ sJob = [k \in StoryJobs |-> NoStoryJob]
    /\ story_verification_enabled \in BOOLEAN
    /\ NoCalls
    /\ NoWriter
    /\ NoBatch
    /\ NoExtraction
    /\ NoSelection

SpecCrm == InitCrm /\ [][NextCrm]_vars

\* one run_ingestion execution together with a story job of its snapshot
\* that a worker may take at any time
InitPipeline ==
    /\ InitIngestion
    /\ \E e \in {x.id : x \in IngestedEntities.entities} :
          sJob = [k \in StoryJobs |->
                     IF k = 1
                     THEN [NoStoryJob EXCEPT !.pc = "enqueued", !.entity_id = e]
                     ELSE NoStoryJob]
    /\ story_verification_enabled \in BOOLEAN
    /\ NoCalls
    /\ NoWriter
    /\ NoBatch
    /\ NoExtraction
    /\ NoSelection

NextPipeline ==
    \/ \E j \in Jobs :
          \/ LoadSnapshot(j)
          \/ StageInit(j)
          \/ StageGmailList(j)
          \/ StageGmailFetch(j)
          \/ StageCalendarFetch(j)
          \/ StageWrappedCompute(j)
          \/ StoreArtifactCommit(j)
          \/ StageEntitiesCompute(j)
          \/ StoreGraph(j)
          \/ StageOrgsCompute(j)
          \/ StageFinalize(j)
          \/ PreloadStories(j)
          \/ StageRaises(j)
          \/ WorkerDies(j)
    \/ \E k \in StoryJobs :
          \/ StoryLoad(k)
          \/ StoryDossier(k)
          \/ StoryWrite(k)
          \/ StoryVerify(k)
          \/ StoryFix(k)
          \/ StoryStore(k)
          \/ StoryStoreVerification(k)
          \/ StoryStoreCommit(k)

SpecPipeline == InitPipeline /\ [][NextPipeline]_vars

\* store_artifact called in a row on a snapshot without artifacts
InitArtifacts == InitIngestion /\ NoStoryJobs /\ NoCalls /\ NoWriter /\ NoBatch /\ NoExtraction /\ NoSelection

\* one batched summary call
InitBatchCall ==
    InitBatch /\ InitIngestion /\ NoStoryJobs /\ NoCalls /\ NoWriter /\ NoExtraction /\ NoSelection

SpecBatch == InitBatchCall /\ [][NextBatch]_vars

\* the extraction over the evidence of a snapshot whose evidence is stored
InitExtractionCall ==
    /\ InitExtraction
    /\ snapshot = [RunningSnapshot EXCEPT !.progress_counts = NoCounts]
    /\ artifacts = NoArtifacts
    /\ redis = {1}
    /\ job = [j \in Jobs |-> NoJob]
    /\ statusReq = NoRequest
    /\ story_queue = {}
    /\ NoStoryJobs
    /\ NoCalls
    /\ NoWriter
    /\ NoSelection
    /\ NoBatch

SpecExtraction == InitExtractionCall /\ [][NextExtraction]_vars

SpecArtifacts == InitArtifacts /\ [][StoreArtifactCall]_vars

\* the evidence selection for one entity of an ingested snapshot
InitSelectionCall ==
    /\ InitSelection
    /\ InitIngestion
    /\ NoStoryJobs
    /\ NoCalls
    /\ NoWriter
    /\ NoBatch
    /\ NoExtraction

SpecSelection == InitSelectionCall /\ [][NextSelection]_vars

(***************************************************************************)
(* Properties of the ingestion                                             *)
(***************************************************************************)
\* the stringified cause of a failed run
CauseOf(result_job) ==
    IF result_job.exception # Null THEN StrOf[result_job.exception]
    ELSE "No access token available"

\* C1: when run_ingestion returns, the persisted status is done or failed
\* and equals the status of the result, and a failed snapshot records a
\* failure_reason equal to the stringified cause
C1_StatusAtReturn ==
    [][\A j \in Jobs :
          (job[j].pc # "returned" /\ job'[j].pc = "returned") =>
              /\ snapshot'.status \in {"done", "failed"}
              /\ snapshot'.status = job'[j].result.status
              /\ (job'[j].result.status = "failed" =>
                     snapshot'.failure_reason = CauseOf(job'[j]))]_vars

\* C4: an execution that finds the snapshot done is a no-op: unless a
\* statement of it raises, each of its steps leaves the status done and
\* the evidence, entity, link and artifact rows as they are
C4_SecondRunIsNoOp ==
    [][\A j \in Jobs :
          (/\ job[j].pc = "init"
           /\ job[j].orm.status = "done"
           /\ job'[j] # job[j]
           /\ job'[j].exception = Null) =>
              /\ snapshot'.status = "done"
              /\ evidence' = evidence
              /\ entities' = entities
              /\ entity_evidence' = entity_evidence
              /\ artifacts' = artifacts]_vars

\* no two Entity rows of the same kind for the same address and domain
NoDuplicateEntities ==
    \A a, b \in entities :
        (a.kind = b.kind /\ a.primary_email = b.primary_email /\ a.domain = b.domain)
            => a.id = b.id

\* C5: a run that a worker took after another worker had died mid-run
\* ends, unless the Gmail, Calendar or database service fails under it,
\* with status done, and no Entity row is duplicated (EvidenceItem rows
\* are kept unique by uq_evidence_source)
C5_ResumedRunCompletes ==
    \A j \in Jobs :
        (/\ job[j].pc = "returned"
         /\ job[j].rerun
         /\ job[j].exception \notin {"TimeoutError", "HttpError"}) =>
            /\ job[j].result.status = "done"
            /\ NoDuplicateEntities

\* C6: after any number of extraction runs there is at most one person
\* Entity per participant address and one organization Entity per domain
C6_ExtractionIdempotent == NoDuplicateEntities

(***************************************************************************)
(* Properties of the Story Writer call                                     *)
(***************************************************************************)
DictItems(items) == {items[i] : i \in {k \in 1..Len(items) : items[k].isDict}}

ReturnedItems == DictItems(wStory.timeline) \cup DictItems(wStory.claims)

PassedIds == {wEvidence[i].id : i \in 1..Len(wEvidence)}

\* the timeline of the model output, as generate_story reads it
ModelTimeline == IF wData.timelineIsList THEN wData.timeline ELSE <<>>
ModelClaims == IF wData.claimsIsList THEN wData.claims ELSE <<>>

\* C7: citation closure of the Story Writer.  Every evidence_ids value returned
\* is a list of strings, each the id of an item of the evidence list passed in,
\* whatever the model answered.
C7_CitationClosure ==
    wPc = "returned" =>
        \A item \in ReturnedItems :
            /\ item.evidence_ids.isList
            /\ \A e \in Range(item.evidence_ids.entries) : e.isStr /\ e.v \in PassedIds

\* C7 witness: the model cited an invented id, a non-string and a duplicate, and
\* the story returned still carries citations.
C7_Witness ==
    /\ wPc = "returned"
    /\ \E i \in 1..Len(ModelClaims) : ModelClaims[i].evidence_ids = MixedIds
    /\ \E item \in DictItems(wStory.claims) : item.evidence_ids.entries # <<>>

\* C9: citation budget.  The evidence ids of all timeline entries and claims
\* returned number at most MAX_EVIDENCE_IDS_PER_STORY together.
C9_CitationBudget ==
    wPc = "returned" =>
        TotalCitations(wStory.timeline) + TotalCitations(wStory.claims)
            <= MAX_EVIDENCE_IDS_PER_STORY

\* C9 witness: the model cited more than the budget and the budget is used up.
C9_Witness ==
    /\ wPc = "returned"
    /\ SumLens([i \in 1..Len(ModelTimeline) |-> ModelTimeline[i].evidence_ids.entries])
         + SumLens([i \in 1..Len(ModelClaims) |-> ModelClaims[i].evidence_ids.entries])
           > MAX_EVIDENCE_IDS_PER_STORY
    /\ TotalCitations(wStory.timeline) + TotalCitations(wStory.claims)
           = MAX_EVIDENCE_IDS_PER_STORY

\* positions, in citation order, of the entries of a model timeline entry that
\* cite an allowed evidence item with a usable date
DatedCitations(item) ==
    LET evidence_items == EvidenceItems(wEvidence)
        entries == IF item.evidence_ids.isList THEN item.evidence_ids.entries ELSE <<>>
    IN {k \in 1..Len(entries) :
            /\ entries[k].isStr
            /\ entries[k].v \in AllowedIds(evidence_items)
            /\ _normalize_date(EvidenceMapGet(evidence_items, entries[k].v).date) # None}

FirstDatedEvidence(item) ==
    LET k == CHOOSE k \in DatedCitations(item) : \A j \in DatedCitations(item) : k <= j
    IN EvidenceMapGet(EvidenceItems(wEvidence), item.evidence_ids.entries[k].v)

\* the returned timeline entries that stem from entry i of the model output
ReturnedFor(i) == {t \in DictItems(wStory.timeline) : t.description = i}

IsYMD(d) == d.form = "iso" /\ ~d.ws

FirstCall(i) ==
    CHOOSE j \in 1..i :
        /\ sCalls[j].key = sCalls[i].key
        /\ \A m \in 1..(j - 1) : sCalls[m].key # sCalls[i].key

\* C2: every store_artifact call returns the payload of the first call for
\* its key, and the data stored under a key is that payload: a later call
\* with another payload does not overwrite it
C2_FirstWriteWins ==
    \A i \in DOMAIN sCalls :
        /\ sCalls[i].returned = sCalls[FirstCall(i)].data
        /\ sCalls[i].key \in DOMAIN artifacts
        /\ artifacts[sCalls[i].key] = sCalls[FirstCall(i)].data

\* C2 witness: a key was stored twice in sequence with different payloads
C2_Witness ==
    \E i \in DOMAIN sCalls :
        /\ i + 1 \in DOMAIN sCalls
        /\ sCalls[i + 1].key = sCalls[i].key
        /\ sCalls[i + 1].data # sCalls[i].data
        /\ FirstCall(i) = i
        /\ sCalls[i + 1].returned = sCalls[i].data

\* C3: a store_artifact call that passed the existence check and commits
\* after another call has stored the key leaves the one row as it is and
\* does not make its job fail
C3_LosingStoreIsDuplicate ==
    [][\A k \in StoryJobs :
          (/\ sJob[k].pc = "store_commit"
           /\ sJob[k].pending.key \in DOMAIN artifacts
           /\ sJob'[k] # sJob[k]) =>
              /\ artifacts' = artifacts
              /\ sJob'[k].result.status # "failed"]_vars

\* the evidence ids that the items of a claims or timeline list cite
CitedIds(items) ==
    UNION {{e.v : e \in Range(IF item.evidence_ids.isList
                              THEN item.evidence_ids.entries ELSE <<>>)} :
           item \in DictItems(items)}

\* C8: every stored story_text artifact cites, in its claims and timeline,
\* only ids of the evidence list passed to the Story Writer for the entity
C8_PublishedCitationClosure ==
    \A x \in entities :
        StoryKey(x.id) \in DOMAIN artifacts =>
            CitedIds(artifacts[StoryKey(x.id)].claims)
                \cup CitedIds(artifacts[StoryKey(x.id)].timeline)
                    \subseteq {item.id : item \in Range(StoryEvidence(x.id))}

(***************************************************************************)
(* Properties of the batched summary calls                                 *)
(***************************************************************************)
\* C11: a batched call returns one summary per input, the i-th with the id
\* of the i-th input, whatever the model answered and also when the batched
\* call failed and the inputs were summarized one by one
C11_OneSummaryPerInput ==
    bPc \in {"threads", "meetings"} =>
        /\ Len(bOut) = Len(bInputs)
        /\ \A i \in 1..Len(bInputs) : bOut[i].id = bInputs[i].id
        /\ \A i, j \in 1..Len(bOut) : bOut[i].id = bOut[j].id => i = j

\* C11 witness: the model answered for an unknown id, twice for one input
\* and not at all for the other, which received the placeholder
C11_Witness ==
    /\ bPc = "threads"
    /\ Len(bInputs) = 2
    /\ ~BatchRaises(bData)
    /\ Len(bData.items) = 2
    /\ \E j \in 1..2 : bData.items[j].id = Str(UnknownId)
    /\ \E i \in 1..2 : bOut[i].text = "" /\ bOut[3 - i].text = "model"

(***************************************************************************)
(* Properties of the story job                                             *)
(***************************************************************************)
\* the reasons for which a story job fails that no model call gives
OtherFailures == {"Snapshot not completed", "Entity not found", StrOf["IntegrityError"]}

\* generate_entity_story has returned in job k
Generated(k) == sJob[k].story_data # NoStory

\* job k stores the row of the key in this step
Stores(k, key) ==
    /\ sJob[k].pc = "store_commit"
    /\ sJob[k].pending.key = key
    /\ sJob'[k] # sJob[k]
    /\ key \notin DOMAIN artifacts
    /\ key \in DOMAIN artifacts'

\* C12: a story job for an entity with linked evidence does not end as
\* failed because of what a model answered, and one that ends as done has
\* its story_text artifact stored
C12_ModelFailureLocality ==
    \A k \in StoryJobs :
        (sJob[k].pc = "returned" /\ Len(StoryEvidence(sJob[k].entity_id)) > 0) =>
            /\ sJob[k].result.status = "failed" => sJob[k].result.error \in OtherFailures
            /\ sJob[k].result.status = "done" =>
                   StoryKey(sJob[k].entity_id) \in DOMAIN artifacts

\* C13: the story_text artifact that a job stores after the Story Writer's
\* model call failed is the fallback story, without claims and timeline, and
\* records a generation_error
C13_WriterFailureRecorded ==
    [][\A k \in StoryJobs :
          (Stores(k, StoryKey(sJob[k].entity_id)) /\ sJob[k].draft.fallback) =>
              LET story == artifacts'[StoryKey(sJob[k].entity_id)]
              IN /\ story.summary = "counts"
                 /\ story.claims = <<>>
                 /\ story.timeline = <<>>
                 /\ story.generation_error # Null]_vars

\* C14: after a failed Verifier call the story is the draft, and the
\* story_verification artifact that the job stores has a verdict other than ok
C14_VerifierFailureObservable ==
    [][\A k \in StoryJobs :
          (Stores(k, VerifyKey(sJob[k].entity_id)) /\ "verifier" \in sJob[k].failed) =>
              /\ sJob[k].story_data.claims = sJob[k].draft.claims
              /\ sJob[k].story_data.timeline = sJob[k].draft.timeline
              /\ artifacts'[VerifyKey(sJob[k].entity_id)].verdict # "ok"]_vars

\* C15: a failed Claim Fixer call returns the claims and the timeline it
\* was given, without raising, and the story_text artifact that the job
\* then stores has the drafted claims and timeline
C15_FixerFailureKeepsDraft ==
    [][\A k \in StoryJobs :
          /\ (sJob[k].pc = "fix" /\ "fixer" \in sJob'[k].failed) =>
                 /\ sJob'[k].pc = "store_story"
                 /\ sJob'[k].story_data.claims = sJob[k].draft.claims
                 /\ sJob'[k].story_data.timeline = sJob[k].draft.timeline
          /\ (Stores(k, StoryKey(sJob[k].entity_id)) /\ "fixer" \in sJob[k].failed) =>
                 LET story == artifacts'[StoryKey(sJob[k].entity_id)]
                 IN /\ story.claims = sJob[k].draft.claims
                    /\ story.timeline = sJob[k].draft.timeline]_vars

\* C15 witness: the only job that has run stored its story after a failed
\* Claim Fixer call, with the claim and the timeline entry of the draft
C15_Witness ==
    \E k \in StoryJobs :
        /\ \A o \in StoryJobs \ {k} : sJob[o].pc = "enqueued"
        /\ sJob[k].pc = "store_verify"
        /\ "fixer" \in sJob[k].failed
        /\ Len(sJob[k].draft.claims) = 1
        /\ Len(sJob[k].draft.timeline) = 1
        /\ StoryKey(sJob[k].entity_id) \in DOMAIN artifacts
        /\ artifacts[StoryKey(sJob[k].entity_id)].claims = sJob[k].draft.claims
        /\ artifacts[StoryKey(sJob[k].entity_id)].timeline = sJob[k].draft.timeline

\* the Claim Fixer is called only with verification enabled, verdict
\* needs_fix and issues, and without that call the story is the draft
FixerGate(k) ==
    /\ ("fixer" \in sJob[k].called \/ sJob[k].pc = "fix") =>
           /\ story_verification_enabled
           /\ sJob[k].verification.verdict = "needs_fix"
           /\ sJob[k].verification.issues
    /\ (Generated(k) /\ "fixer" \notin sJob[k].called) =>
           /\ sJob[k].story_data.claims = sJob[k].draft.claims
           /\ sJob[k].story_data.timeline = sJob[k].draft.timeline

\* C16: the Claim Fixer is called only with verification enabled, verdict
\* needs_fix and issues, without that call the story is the draft, and with
\* verification disabled there is no Verifier or Fixer call and the
\* recorded verdict is skipped
C16_FixerGateAsStated ==
    \A k \in StoryJobs :
        /\ FixerGate(k)
        /\ (~story_verification_enabled /\ Generated(k)) =>
               /\ sJob[k].called \cap {"verifier", "fixer"} = {}
               /\ sJob[k].verification.verdict = "skipped"

\* the story jobs of an entity, and whether each of them has ended
JobsOf(entity_id) ==
    {k \in StoryJobs : sJob[k].pc # "absent" /\ sJob[k].entity_id = entity_id}

StoryJobsEnded(entity_id) ==
    /\ JobsOf(entity_id) # {}
    /\ \A k \in JobsOf(entity_id) : sJob[k].pc \in {"returned", "dead"}

\* C30: when the story and the verification artifact of an entity both
\* exist, the verification_status of the story is the verdict of the
\* verification, and once the story jobs of the entity have ended a stored
\* story has its verification artifact, also with duplicate jobs and with a
\* job that ends between the two writes
C30_StoryVerificationConsistent ==
    \A e \in {sJob[k].entity_id : k \in StoryJobs} :
        /\ (StoryKey(e) \in DOMAIN artifacts /\ VerifyKey(e) \in DOMAIN artifacts) =>
               artifacts[StoryKey(e)].verification_status
                   = artifacts[VerifyKey(e)].verdict
        /\ (StoryJobsEnded(e) /\ StoryKey(e) \in DOMAIN artifacts) =>
               VerifyKey(e) \in DOMAIN artifacts

\* a stored story that carries a verification_status carries the verdict of
\* the stored verification
VerdictOfTheSameRun ==
    \A e \in {sJob[k].entity_id : k \in StoryJobs} :
        (/\ StoryKey(e) \in DOMAIN artifacts
         /\ VerifyKey(e) \in DOMAIN artifacts
         /\ artifacts[StoryKey(e)].verification_status # Null) =>
            artifacts[StoryKey(e)].verification_status
                = artifacts[VerifyKey(e)].verdict

\* once the story jobs of an entity have ended, its stored story has its
\* verification artifact
StoryHasVerification ==
    \A e \in {sJob[k].entity_id : k \in StoryJobs} :
        (StoryJobsEnded(e) /\ StoryKey(e) \in DOMAIN artifacts) =>
            VerifyKey(e) \in DOMAIN artifacts

(***************************************************************************)
(* Properties of the entity extraction                                     *)
(***************************************************************************)
\* the addresses that appear as a participant of a stored row
Participants(ev) ==
    UNION {{lower(source[e].participants[k]) :
               k \in DOMAIN source[e].participants} : e \in ev}

\* the stored rows, not bulk, in which the address is a participant
ItemsWith(ev, m) ==
    {e \in ev : /\ ~is_bulk(source[e])
                /\ \E k \in DOMAIN source[e].participants :
                       lower(source[e].participants[k]) = m}

\* the eligibility rule over the counts of evidence items
MeetsThreshold(ev, m) ==
    LET items == ItemsWith(ev, m)
    IN \/ Cardinality({source[e].day : e \in items}) >= 2
       \/ Cardinality({e \in items : source[e].source_type = "calendar_event"}) >= 2
       \/ Cardinality({e \in items : source[e].source_type = "gmail_message"}) >= 5

\* C17: after extract_entities, a participant address has a person Entity
\* exactly when it is not the subject's own address, not an automated
\* sender, and its evidence items reach one of the three thresholds
C17_PersonEligibility ==
    xPc \in {"persons", "orgs"} =>
        \A m \in Participants(evidence) \ {NoEmail} :
            (\E x \in entities : x.kind = "person" /\ x.primary_email = m)
                <=> /\ m # lower(user_email)
                    /\ ~is_automated_sender(m)
                    /\ MeetsThreshold(evidence, m)

\* the distinct contact addresses of an organization's domain
ContactEmails(ev, domain) ==
    {m \in Participants({e \in ev : ~is_bulk(source[e])}) :
        /\ m.domain = domain
        /\ m # NoEmail
        /\ m # lower(user_email)
        /\ ~is_automated_sender(m)}

\* C18: the score of every stored Entity is the weighted sum of its own
\* stored counters, plus 25 for each distinct contact address of an
\* organization
C18_ScoreFormula ==
    \A x \in entities :
        LET sum == 2 * x.total_meeting_minutes + 30 * x.meeting_count
                       + 5 * x.email_count + 10 * x.interaction_days
        IN /\ x.kind = "person" => x.score = sum
           /\ x.kind = "org" =>
                  x.score = sum + 25 * Cardinality(ContactEmails(evidence, x.domain))

\* C18 witness: both extractions ran and stored a person with messages and
\* meeting minutes and an organization with a contact
C18_Witness ==
    /\ xPc = "orgs"
    /\ \E x \in entities :
           /\ x.kind = "person"
           /\ x.email_count > 0
           /\ x.total_meeting_minutes > 0
           /\ x.score = 2 * x.total_meeting_minutes + 30 * x.meeting_count
                            + 5 * x.email_count + 10 * x.interaction_days
    /\ \E x \in entities :
           /\ x.kind = "org"
           /\ Cardinality(ContactEmails(evidence, x.domain)) = 1
           /\ x.total_meeting_minutes > 0

\* the stored rows flagged as bulk or as coming from an automated sender
Flagged(ev) ==
    {e \in ev : is_bulk(source[e]) \/ RowIsAutomated(source[e])}

\* an Entity row without its id
Counters(x) == [x EXCEPT !.id = 0]

\* the Entity rows of both extractions over a set of rows
Extracted(ev, orgs) ==
    LET persons == extract_entities(ev, {}, {})
    IN IF orgs
       THEN extract_top_organizations(ev, persons.entities,
                                      persons.entity_evidence, OrgLimit).entities
       ELSE persons.entities

\* C19: a stored row flagged as bulk or as coming from an automated sender
\* is linked to no Entity, and the Entity rows are those that the
\* extraction gives without the flagged rows
C19_FlaggedEvidenceExcluded ==
    xPc \in {"persons", "orgs"} =>
        /\ \A link \in entity_evidence : link[2] \notin Flagged(evidence)
        /\ {Counters(x) : x \in entities}
               = {Counters(x) : x \in Extracted(evidence \ Flagged(evidence),
                                                xPc = "orgs")}

\* the evidence rows of one source type linked to an Entity
LinkedOfType(entity_id, source_type) ==
    {link[2] : link \in {l \in entity_evidence :
                            /\ l[1] = entity_id
                            /\ source[l[2]].source_type = source_type}}

\* C29: for every person Entity, meeting_count is the number of distinct
\* calendar events linked to it and email_count the number of distinct
\* messages linked to it, also when its address appears several times in
\* the participant list of one row
C29_CountsDistinctEvidence ==
    xPc \in {"persons", "orgs"} =>
        \A x \in entities :
            x.kind = "person" =>
                /\ x.meeting_count = Cardinality(LinkedOfType(x.id, "calendar_event"))
                /\ x.email_count = Cardinality(LinkedOfType(x.id, "gmail_message"))

(***************************************************************************)
(* Properties of the re-submission                                         *)
(***************************************************************************)
\* the ingestion jobs that this step submits to the queue
Submitted == {j \in Jobs : job[j].pc = "absent" /\ job'[j].pc = "enqueued"}

\* C20: an ingestion job is submitted only by the status check, one per
\* call, for a snapshot that is queued or running and whose ingest_job_id
\* names no job of the queue backend; a status check that submits nothing
\* leaves the snapshot as it is
C20_ResubmissionGate ==
    [][/\ Submitted # {} =>
              /\ statusReq.pc = "check"
              /\ statusReq'.pc = "idle"
              /\ Cardinality(Submitted) = 1
              /\ snapshot.status \in {"queued", "running"}
              /\ snapshot.ingest_job_id \notin redis
       /\ (statusReq.pc = "check" /\ statusReq'.pc = "idle" /\ Submitted = {}) =>
              snapshot' = snapshot]_vars

(***************************************************************************)
(* run_ingestion after the commit of finalize                              *)
(***************************************************************************)
\* a step in which job j leaves the preload loop by returning
PreloadReturns(j) == job[j].pc = "preload" /\ job'[j].pc = "returned"

\* C21: when the submission of the preload story jobs fails after finalize,
\* run_ingestion returns done and leaves the snapshot row as finalize
\* committed it, without a failure_reason written; story jobs are submitted
\* only by a run that has committed done, and only for the first person and
\* the top organizations, each entity once.
C21_PreloadFailureSwallowed ==
    [][/\ \A j \in Jobs :
             PreloadReturns(j) =>
                 /\ job'[j].result = [status |-> "done", error |-> Null]
                 /\ snapshot' = snapshot
                 /\ job[j].orm.status = "done"
                 /\ story_queue \subseteq story_queue'
                 /\ story_queue' \subseteq story_queue \cup
                        preload_story_entity_ids(job[j].entities, job[j].top_orgs)
       /\ story_queue' # story_queue =>
             /\ snapshot.completed_at
             /\ \E j \in Jobs : PreloadReturns(j)]_vars

\* a run has returned done although none of its preload jobs was submitted
C21_Witness ==
    /\ \E j \in Jobs : job[j].pc = "returned" /\ job[j].result.status = "done"
    /\ snapshot.status = "done"
    /\ snapshot.failure_reason = Null
    /\ entities # {}
    /\ story_queue = {}

\* C22: a snapshot whose status is done holds no ingestion credentials:
\* access_token_encrypted, refresh_token_encrypted and token_expiry are null.
C22_DoneHoldsNoCredentials ==
    snapshot.status = "done" =>
        /\ ~snapshot.access_token_encrypted
        /\ ~snapshot.refresh_token_encrypted
        /\ ~snapshot.token_expiry

\* the snapshot is done while a second run that loaded the tokens is still
\* inside run_ingestion
C22_Witness ==
    /\ snapshot.status = "done"
    /\ ~snapshot.access_token_encrypted
    /\ \E j \in Jobs : job[j].pc \in StagePcs /\ job[j].access_token

\* C28: done is absorbing.  Once the persisted status of the snapshot is
\* done, no step of an ingestion job, of a status request or of the queue
\* changes it to queued, running or failed.
C28_DoneIsAbsorbing ==
    [][snapshot.status = "done" => snapshot'.status = "done"]_vars

(***************************************************************************)
(* Order of the stages of one ingestion and of the story jobs              *)
(***************************************************************************)
\* the values of SnapshotStage that run_ingestion writes, in program order
StageOrder ==
    <<"init", "gmail_list", "gmail_fetch", "calendar_fetch", "wrapped_compute",
      "entities_compute", "finalize">>

StageRank(stage) ==
    IF stage = Null THEN 0 ELSE CHOOSE i \in DOMAIN StageOrder : StageOrder[i] = stage

\* the keys of the artifacts that story generation writes
StoryArtifacts(arts) ==
    {key \in DOMAIN arts : key[1] \in {"story_text", "story_verification", "entity_dossier"}}

\* C25: within one run_ingestion execution the persisted stage takes the
\* values init, gmail_list, gmail_fetch, calendar_fetch, wrapped_compute,
\* entities_compute, finalize in that order and never moves backwards;
\* Entity rows are written only after the message and the event evidence
\* has been committed, and story generation writes artifacts only after the
\* snapshot has reached done.
C25_StageOrder ==
    [][/\ snapshot'.stage \in Range(StageOrder) \cup {Null}
       /\ StageRank(snapshot'.stage) \in
              {StageRank(snapshot.stage), StageRank(snapshot.stage) + 1}
       /\ entities' # entities =>
              /\ {"messages_stored", "events_stored"} \subseteq
                     DOMAIN snapshot.progress_counts
              /\ StageRank(snapshot'.stage) >= StageRank("entities_compute")
       /\ entities # {} => evidence' = evidence
       /\ StoryArtifacts(artifacts') # StoryArtifacts(artifacts) =>
              /\ snapshot.completed_at
              /\ snapshot.status = "done"]_vars

\* the run went through finalize, and a story job that was submitted before
\* has stored its story
C25_Witness ==
    /\ \E j \in Jobs : job[j].pc = "returned" /\ job[j].result.status = "done"
    /\ snapshot.stage = "finalize"
    /\ entities # {}
    /\ \E key \in StoryArtifacts(artifacts) : key[1] = "story_text"

(***************************************************************************)
(* Properties of the story of an entity                                    *)
(***************************************************************************)
\* gather_entity_evidence finds no evidence linked to the entity
NoLinkedEvidence(entity_id) ==
    \A e \in evidence : <<entity_id, e>> \notin entity_evidence

\* C23: for an entity with zero linked evidence generate_entity_story
\* returns a story with empty claims, empty timeline and a summary that
\* holds the entity's name; it calls no model (summarizer, dossier, story,
\* verifier, fixer) and stores no dossier artifact.
C23_NoEvidenceStory ==
    \A k \in StoryJobs :
        (Generated(k) /\ NoLinkedEvidence(sJob[k].entity_id)) =>
            /\ sJob[k].story_data.claims = <<>>
            /\ sJob[k].story_data.timeline = <<>>
            /\ sJob[k].story_data.summary = "limited"
            /\ sJob[k].story_data.summary_name = sJob[k].entity_id
            /\ sJob[k].called = {}
            /\ DossierKey(sJob[k].entity_id) \notin DOMAIN artifacts

\* a job has generated and stored the story of an entity without evidence
C23_Witness ==
    \E k \in StoryJobs :
        /\ sJob[k].pc = "store_verify"
        /\ \E x \in entities : x.id = sJob[k].entity_id
        /\ NoLinkedEvidence(sJob[k].entity_id)
        /\ StoryKey(sJob[k].entity_id) \in DOMAIN artifacts
        /\ artifacts[StoryKey(sJob[k].entity_id)] = sJob[k].story_data

(***************************************************************************)
(* The citation budget of the Story Writer, item by item                   *)
(***************************************************************************)
\* the timeline entries as the first loop leaves them, dropped ones included
VisitedTimeline ==
    [i \in 1..Len(ModelTimeline) |->
        TimelineItem(ModelTimeline[i], EvidenceItems(wEvidence))]

\* the items of the answer with their normalized citations, in output order:
\* the timeline entries that are kept, then the claims
NormalizedItems ==
    SelectSeq(VisitedTimeline, LAMBDA t : t.isDict /\ ~t.invalid)
    \o SelectSeq([i \in 1..Len(ModelClaims) |->
                     ClaimItem(ModelClaims[i], EvidenceItems(wEvidence))],
                 LAMBDA c : c.isDict)

\* the items returned, in output order
OutputItems ==
    SelectSeq(wStory.timeline, LAMBDA t : t.isDict)
    \o SelectSeq(wStory.claims, LAMBDA c : c.isDict)

\* total_citations > MAX_EVIDENCE_IDS_PER_STORY
OverCited ==
    TotalCitations(VisitedTimeline)
        + TotalCitations([i \in 1..Len(ModelClaims) |->
                             ClaimItem(ModelClaims[i], EvidenceItems(wEvidence))])
      > MAX_EVIDENCE_IDS_PER_STORY

\* C24: when the model over-cites, the budget is spent in output order,
\* timeline entries first, then claims: the items before the point where the
\* budget runs out keep all their citations, at most one item is cut to a
\* prefix of its citations, and every later item has an empty evidence_ids.
C24_BudgetInOutputOrder ==
    (wPc = "returned" /\ ~wStory.fallback /\ OverCited) =>
        LET norm == NormalizedItems
            out == OutputItems
        IN /\ Len(out) = Len(norm)
           /\ \E p \in 1..(Len(norm) + 1) :
                 /\ \A i \in 1..Len(norm) :
                       LET ids == norm[i].evidence_ids.entries
                           kept == out[i].evidence_ids.entries
                       IN /\ out[i] = [norm[i] EXCEPT !.evidence_ids = List(kept)]
                          /\ i < p => kept = ids
                          /\ i = p => kept = Prefix(ids, Len(kept))
                          /\ i > p => kept = <<>>
                 /\ p <= Len(norm) =>
                       TotalCitations(out) = MAX_EVIDENCE_IDS_PER_STORY

\* an over-cited answer is returned with an item that keeps its citations,
\* an item cut to a proper prefix and a later item that lost all of them
C24_Witness ==
    /\ wPc = "returned"
    /\ ~wStory.fallback
    /\ OverCited
    /\ Len(OutputItems) = Len(NormalizedItems)
    /\ \E i, j, k \in 1..Len(OutputItems) :
          /\ i < j /\ j < k
          /\ OutputItems[i].evidence_ids = NormalizedItems[i].evidence_ids
          /\ OutputItems[i].evidence_ids.entries # <<>>
          /\ OutputItems[j].evidence_ids.entries # <<>>
          /\ Len(OutputItems[j].evidence_ids.entries)
                 < Len(NormalizedItems[j].evidence_ids.entries)
          /\ OutputItems[k].evidence_ids.entries = <<>>
          /\ NormalizedItems[k].evidence_ids.entries # <<>>

(***************************************************************************)
(* Properties of the evidence selection                                    *)
(***************************************************************************)
\* r is an integer nearest to a / b
Nearest(r, a, b) == 2 * (r * b - a) <= b /\ 2 * (a - r * b) <= b

\* C26: with n > MAX_EVIDENCE_IDS_PER_STORY candidates, exactly
\* MAX_EVIDENCE_IDS_PER_STORY distinct items are passed to the Story Writer,
\* those at the indices round(i * (n - 1) / (MAX - 1)), i = 0..MAX - 1, of the
\* date-sorted list, so the earliest and the latest item are among them and
\* they are in date order; with n <= MAX all items are passed.
C26_EvenlySpacedSelection ==
    cPc = "passed" =>
        LET n == Len(combined)
            MAX == MAX_EVIDENCE_IDS_PER_STORY
        IN /\ \A k \in 1..(n - 1) : SortKey(combined[k]) <= SortKey(combined[k + 1])
           /\ n <= MAX => selected = combined
           /\ n > MAX =>
                 /\ Len(selected) = MAX
                 /\ Cardinality({selected[k].id : k \in 1..Len(selected)}) = MAX
                 /\ \A i \in 0..(MAX - 1) :
                       \E r \in 0..(n - 1) :
                          /\ Nearest(r, i * (n - 1), MAX - 1)
                          /\ selected[i + 1] = combined[r + 1]
                 /\ selected[1] = combined[1]
                 /\ selected[MAX] = combined[n]
                 /\ \A k \in 1..(MAX - 1) :
                       SortKey(selected[k]) <= SortKey(selected[k + 1])

\* a list of the largest size with undated rows has been down-sampled
C26_Witness ==
    /\ cPc = "passed"
    /\ Len(combined) = max_entity_evidence_items
    /\ Len(selected) = MAX_EVIDENCE_IDS_PER_STORY
    /\ combined[Len(combined)].day = 0
    /\ selected[2] # combined[2]

(***************************************************************************)
(* The story of an entity as crm_story reports it                          *)
(***************************************************************************)
\* C27: for an unlocked entity of a done snapshot crm_story answers
\* generating while there is no story_text artifact, also when the enqueue
\* fails; once it answers ready or failed, every later answer has the same
\* status and content; a failed answer carries the stored title and summary
\* and the captured error.
C27_StoryStateMachine ==
    [][\A e \in UnlockedIds :
          LET response == StoryResponse(e) IN
          /\ StoryKey(e) \notin DOMAIN artifacts <=> response.status = "generating"
          /\ response.status \in {"generating", "ready", "failed"}
          /\ response.status \in {"ready", "failed"} =>
                 StoryResponse(e)' = response
          /\ response.status = "failed" =>
                 /\ response.content.title = artifacts[StoryKey(e)].title
                 /\ response.content.summary = artifacts[StoryKey(e)].summary
                 /\ response.content.error = artifacts[StoryKey(e)].generation_error
                 /\ response.content.error \notin {Null, ""}]_vars

\* the answer is failed while a second job of the entity is about to store
\* a story of its own
C27_Witness ==
    \E e \in UnlockedIds :
        /\ StoryResponse(e).status = "failed"
        /\ \E k \in StoryJobs :
              /\ sJob[k].entity_id = e
              /\ sJob[k].pc = "store_commit"
              /\ sJob[k].pending.key = StoryKey(e)
              /\ sJob[k].pending.data # artifacts[StoryKey(e)]

====
